---- MODULE Spec2Model ----
(***************************************************************************)
(* Audio-delivery scoring engine of chunks-ec: the metric-configuration    *)
(* resolver (local override -> remote cache -> compiled defaults), the     *)
(* calibration-profile store and the scoring pipeline of audioAnalysis.    *)
(*                                                                         *)
(* Numbers.  JavaScript numbers are modelled as extended rationals         *)
(* [k, n, d]: k = "fin" with value n/d (d > 0, reduced), or "nan", "pinf", *)
(* "ninf".  Quantities kept in the state are fixed-point integers with two *)
(* decimals ("centi": 40 is 4000, 2.71 is 271, -15 dB is -1500) unless a   *)
(* definition says otherwise.                                              *)
(***************************************************************************)
EXTENDS Integers, Sequences, FiniteSets, TLC

VARIABLES
    localRaw,       \* localStorage["metricConfig"], as an abstract JSON value
    cachedConfig,   \* part_004:110  let cachedConfig (<<>> models null)
    cachedAt,       \* part_004:111  let cachedAt, in ms
    clock,          \* Date.now(), in ms since the page was loaded
    callPc,         \* per getConfigAsync call: "idle" | "fetching" | "done"
    callNow,        \* per call: the `now` captured at part_004:183
    callResult,     \* per call: the configuration the promise resolved with
    callOutcome,    \* per call: "none" | "resolved" | "rejected"
    callFetches,    \* per call: remote round trips issued by this call
    callResp,       \* per call: the response its fetch received ("none" before)
    calStore,       \* localStorage[CALIBRATION_STORAGE_KEY], as an abstract JSON value
    created,        \* the profile the last createCalibrationProfile returned
    wizStep,        \* CalibrationWizard: useState step
    wizNoise,       \* CalibrationWizard: useState noiseFloor, centi-dB
    wizClosure,     \* CalibrationWizard: noiseFloor as the running handler closed over it
    testProfile,    \* CalibrationTest: profile, as read by the last render
    manualGain,     \* CalibrationTest: useState manualGain
    hasChanges,     \* CalibrationTest: useState hasChanges
    anPc,           \* each analysis: "idle" | "config" | "transcribeA" | "transcribeB" | "done"
    anIn,           \* each analysis: its arguments
    anMid,          \* each analysis: its locals across the await of the transcription
    anOut,          \* each analysis: what it returned
    anReplies,      \* each analysis: the replies its transcription requests received
    lastCall,       \* the last direct call of a library function: its name, arguments and result
    rt              \* useRealtimeAudio: the prop, the refs and the state of one mounted hook

cfgVars == <<localRaw, cachedConfig, cachedAt, clock, callPc, callNow,
             callResult, callOutcome, callFetches, callResp>>

calVars == <<calStore, created, wizStep, wizNoise, wizClosure,
             testProfile, manualGain, hasChanges>>

anVars == <<anPc, anIn, anMid, anOut, anReplies>>

vars == <<localRaw, cachedConfig, cachedAt, clock, callPc, callNow,
          callResult, callOutcome, callFetches, callResp,
          calStore, created, wizStep, wizNoise, wizClosure,
          testProfile, manualGain, hasChanges, anPc, anIn, anMid, anOut, anReplies,
          lastCall, rt>>

(***************************************************************************)
(* Bounds of the model.                                                    *)
(***************************************************************************)
MaxTicks == 4
MaxOverrideLen == 2
MaxBufLen == 3          \* samples of the short buffers
MaxRecordings == 12     \* recordings of one behaviour of the ring specification
MaxTracked == 1         \* tracked recordings beside the wizard and the gain test
MaxHistory == 4         \* history entries of the profile a suggestion is asked for
MaxStoreOps == 2        \* seconds over which the store operations are called
MaxDaysLate == 10       \* days a deadline may lie back
MaxDaysEarly == 4       \* days a deadline may lie ahead
MaxWaits == 1           \* seconds that pass while two analyses run
MaxToggles == 3         \* changes of the enabled prop of useRealtimeAudio

\* the getConfigAsync calls that may be in progress at once
Callers == {"a", "b"}

(***************************************************************************)
(* Extended rational arithmetic with the IEEE special values.              *)
(***************************************************************************)
Abs(x) == IF x < 0 THEN -x ELSE x

RECURSIVE Gcd(_, _)
Gcd(a, b) == IF b = 0 THEN a ELSE Gcd(b, a % b)

NaN == [k |-> "nan", n |-> 0, d |-> 1]
PInf == [k |-> "pinf", n |-> 1, d |-> 1]
NInf == [k |-> "ninf", n |-> -1, d |-> 1]

\* the rational n/d, d # 0, reduced and with a positive denominator
Q(n, d) ==
    LET g == Gcd(Abs(n), Abs(d))
        s == IF d < 0 THEN -1 ELSE 1
    IN [k |-> "fin", n |-> (s * n) \div g, d |-> (s * d) \div g]

I(n) == [k |-> "fin", n |-> n, d |-> 1]

IsFin(x) == x.k = "fin"
IsNaN(x) == x.k = "nan"
Sign(x) == IF x.n > 0 THEN 1 ELSE IF x.n < 0 THEN -1 ELSE 0

XNeg(x) ==
    CASE x.k = "fin" -> [k |-> "fin", n |-> -x.n, d |-> x.d]
      [] x.k = "pinf" -> NInf
      [] x.k = "ninf" -> PInf
      [] OTHER -> NaN

XAdd(x, y) ==
    CASE IsNaN(x) \/ IsNaN(y) -> NaN
      [] IsFin(x) /\ IsFin(y) ->
           \* over the least common denominator, which keeps the numerators small
           Q(x.n * (y.d \div Gcd(x.d, y.d)) + y.n * (x.d \div Gcd(x.d, y.d)),
             x.d * (y.d \div Gcd(x.d, y.d)))
      [] IsFin(x) -> y
      [] IsFin(y) -> x
      [] x.k = y.k -> x
      [] OTHER -> NaN            \* Infinity - Infinity

XSub(x, y) == XAdd(x, XNeg(y))

XMul(x, y) ==
    CASE IsNaN(x) \/ IsNaN(y) -> NaN
      [] IsFin(x) /\ IsFin(y) -> Q(x.n * y.n, x.d * y.d)
      [] Sign(x) = 0 \/ Sign(y) = 0 -> NaN       \* 0 * Infinity
      [] Sign(x) * Sign(y) > 0 -> PInf
      [] OTHER -> NInf

XDiv(x, y) ==
    CASE IsNaN(x) \/ IsNaN(y) -> NaN
      [] IsFin(x) /\ IsFin(y) ->
           IF y.n # 0 THEN Q(x.n * y.d, x.d * y.n)
           ELSE IF x.n = 0 THEN NaN                \* 0 / 0
           ELSE IF x.n > 0 THEN PInf ELSE NInf
      [] IsFin(x) -> I(0)                          \* finite / Infinity
      [] IsFin(y) -> IF Sign(x) * (IF y.n < 0 THEN -1 ELSE 1) > 0
                     THEN PInf ELSE NInf
      [] OTHER -> NaN                              \* Infinity / Infinity

\* x < y, x <= y as JavaScript compares them: false when either is NaN
XLt(x, y) ==
    CASE IsNaN(x) \/ IsNaN(y) -> FALSE
      [] IsFin(x) /\ IsFin(y) -> x.n * y.d < y.n * x.d
      [] x.k = "ninf" -> y.k # "ninf"
      [] y.k = "pinf" -> x.k # "pinf"
      [] OTHER -> FALSE

XEq(x, y) == ~IsNaN(x) /\ ~IsNaN(y) /\ x = y
XLe(x, y) == XLt(x, y) \/ XEq(x, y)
XGt(x, y) == XLt(y, x)
XGe(x, y) == XLe(y, x)

\* Math.max / Math.min: NaN when either argument is NaN
XMax(x, y) == IF IsNaN(x) \/ IsNaN(y) THEN NaN ELSE IF XLt(x, y) THEN y ELSE x
XMin(x, y) == IF IsNaN(x) \/ IsNaN(y) THEN NaN ELSE IF XLt(y, x) THEN y ELSE x

\* Math.round: floor(x + 1/2); the special values are returned as they are
XRound(x) ==
    IF IsFin(x) THEN I((2 * x.n + x.d) \div (2 * x.d)) ELSE x

\* Math.round(Math.max(0, Math.min(100, score)))
Clamp100(score) == XRound(XMax(I(0), XMin(I(100), score)))

(***************************************************************************)
(* MetricConfig and the compiled defaults.                                 *)
(***************************************************************************)
MetricIds == <<"volume", "speechRate", "acceleration", "responseTime", "pauseManagement">>

Entry(id, w, mn, idl, mx, meth) ==
    [id |-> id, weight |-> w, min |-> mn, ideal |-> idl, max |-> mx, method |-> meth]

\* part_004:94-100 (weights and thresholds in centi-units; method "" = undefined)
DEFAULT_CONFIG ==
    << Entry("volume", 4000, -3500, -1500, 0, ""),
       Entry("speechRate", 4000, 9000, 15000, 22000, "spectral-flux"),
       Entry("acceleration", 500, 0, 5000, 10000, ""),
       Entry("responseTime", 500, 200000, 20000, 0, ""),
       Entry("pauseManagement", 1000, 0, 0, 271, "") >>

\* part_004:102-108 ("" = undefined)
DB_METRIC_MAP(name) ==
    CASE name = "volume" -> "volume"
      [] name = "speech_rate" -> "speechRate"
      [] name = "end_intensity" -> "acceleration"
      [] name = "latency" -> "responseTime"
      [] name = "pauses" -> "pauseManagement"
      [] OTHER -> ""

CACHE_MS == 60000

NullConfig == <<>>

\* Array.prototype.find over a configuration: the indices whose id matches
IndexOf(config, id) ==
    LET hits == {i \in 1..Len(config) : config[i].id = id}
    IN IF hits = {} THEN 0 ELSE CHOOSE i \in hits : \A j \in hits : i <= j

\* part_004:114-116; <<>> when no entry has the id, else <<entry>>
getMetricConfig(config, id) ==
    IF IndexOf(config, id) = 0 THEN <<>> ELSE <<config[IndexOf(config, id)]>>

\* a ?? b over optional values (<<>> = null/undefined, <<v>> = v)
Coalesce(a, b) == IF a # <<>> THEN a ELSE b

(***************************************************************************)
(* The local override: localStorage["metricConfig"].                       *)
(* kind: "absent" (no item or ""), "unparsable" (JSON.parse throws),       *)
(* "nonarray" (a JSON object, number, string, boolean or null), "array".   *)
(* An array item is "null", "prim" (number, string, boolean) or "obj".     *)
(***************************************************************************)
Raw(kind, items) == [kind |-> kind, items |-> items]

Obj(id, enabled, weight, mn, idl, mx) ==
    [kind |-> "obj", id |-> id, enabled |-> enabled, weight |-> weight,
     min |-> mn, ideal |-> idl, max |-> mx, method |-> ""]

NullItem == [kind |-> "null", id |-> "", enabled |-> FALSE, weight |-> <<>>,
             min |-> <<>>, ideal |-> <<>>, max |-> <<>>, method |-> ""]
PrimItem == [kind |-> "prim", id |-> "", enabled |-> FALSE, weight |-> <<>>,
             min |-> <<>>, ideal |-> <<>>, max |-> <<>>, method |-> ""]

\* part_004:131  m.id && m.enabled && Number(m.weight) > 0
\* (reading a property of a primitive yields undefined)
OverrideItemAccepted(m) ==
    /\ m.kind = "obj"
    /\ m.id # ""
    /\ m.enabled
    /\ m.weight # <<>>
    /\ m.weight[1] > 0

\* part_004:132-144
MapOverrideItem(m) ==
    LET fb == getMetricConfig(DEFAULT_CONFIG, m.id)
        fbMin == IF fb = <<>> THEN <<>> ELSE <<fb[1].min>>
        fbIdeal == IF fb = <<>> THEN <<>> ELSE <<fb[1].ideal>>
        fbMax == IF fb = <<>> THEN <<>> ELSE <<fb[1].max>>
        fbMethod == IF fb = <<>> THEN "" ELSE fb[1].method
    IN Entry(m.id,
             m.weight[1],
             Coalesce(Coalesce(m.min, fbMin), <<0>>)[1],
             Coalesce(Coalesce(m.ideal, fbIdeal), <<0>>)[1],
             Coalesce(Coalesce(m.max, fbMax), <<0>>)[1],
             IF m.method # "" THEN m.method ELSE fbMethod)

RECURSIVE FilterMapOverride(_)
FilterMapOverride(items) ==
    IF items = <<>> THEN <<>>
    ELSE IF OverrideItemAccepted(Head(items))
         THEN <<MapOverrideItem(Head(items))>> \o FilterMapOverride(Tail(items))
         ELSE FilterMapOverride(Tail(items))

\* part_004:120-146, the body of the try block: threw = an exception left it
LocalStorageTryBody(raw) ==
    CASE raw.kind = "absent" -> [threw |-> FALSE, val |-> NullConfig]
      [] raw.kind = "unparsable" -> [threw |-> TRUE, val |-> NullConfig]
      [] raw.kind = "nonarray" -> [threw |-> TRUE, val |-> NullConfig]
      [] OTHER ->
           IF \E i \in 1..Len(raw.items) : raw.items[i].kind = "null"
           THEN [threw |-> TRUE, val |-> NullConfig]    \* null.id in the filter
           ELSE [threw |-> FALSE, val |-> FilterMapOverride(raw.items)]

\* the same without the catch of part_004:147-149
getConfigFromLocalStorage_NoCatch(raw) == LocalStorageTryBody(raw)

\* part_004:118-150; threw = the exception reached the caller
getConfigFromLocalStorage(raw) ==
    LET body == LocalStorageTryBody(raw)
    IN IF body.threw THEN [threw |-> FALSE, val |-> NullConfig] ELSE body

(***************************************************************************)
(* The remote scoring-config collaborator.                                 *)
(* A response is "error" ({error}), "throw" (the request rejects),         *)
(* "rows" with the rows of scoring_config (possibly none).                 *)
(* Row weights are thousandths of the 0..1 fraction; min_value and         *)
(* max_value are optional centi-values.                                    *)
(***************************************************************************)
Row(name, w, mn, mx) == [metric_name |-> name, weight |-> w, min_value |-> mn, max_value |-> mx]

Resp(kind, rows) == [kind |-> kind, rows |-> rows]

\* part_004:159-170, one iteration of the loop over the rows
ApplyRow(base, row) ==
    LET id == DB_METRIC_MAP(row.metric_name)
        i == IndexOf(base, id)
    IN IF id = "" \/ i = 0 THEN base
       ELSE LET prev == base[i]
            IN [base EXCEPT ![i] =
                 Entry(prev.id,
                       100 * ((2 * row.weight + 10) \div 20),
                       Coalesce(row.min_value, <<prev.min>>)[1],
                       Coalesce(row.max_value, <<prev.ideal>>)[1],
                       IF id = "pauseManagement"
                       THEN Coalesce(row.max_value, <<prev.max>>)[1]
                       ELSE prev.max,
                       prev.method)]

RECURSIVE ApplyRows(_, _)
ApplyRows(base, rows) ==
    IF rows = <<>> THEN base ELSE ApplyRows(ApplyRow(base, Head(rows)), Tail(rows))

\* part_004:154-173, the body of the try block
FetchTryBody(resp) ==
    CASE resp.kind = "throw" -> [threw |-> TRUE, val |-> NullConfig]
      [] resp.kind = "error" -> [threw |-> FALSE, val |-> DEFAULT_CONFIG]
      [] OTHER ->
           IF resp.rows = <<>> THEN [threw |-> FALSE, val |-> DEFAULT_CONFIG]
           ELSE [threw |-> FALSE, val |-> ApplyRows(DEFAULT_CONFIG, resp.rows)]

\* the same without the catch of part_004:174-176
fetchConfigFromDB_NoCatch(resp) == FetchTryBody(resp)

\* part_004:152-177
fetchConfigFromDB(resp) ==
    LET body == FetchTryBody(resp)
    IN IF body.threw THEN [threw |-> FALSE, val |-> DEFAULT_CONFIG] ELSE body

\* the staleness test with the boundary on the wrong side
CacheStale_AtBoundary(cfg, at, now) == cfg = NullConfig \/ now - at >= CACHE_MS

\* part_004:184  !cachedConfig || now - cachedAt > CACHE_MS
CacheStale(cfg, at, now) == cfg = NullConfig \/ now - at > CACHE_MS

(***************************************************************************)
(* normalizedWeights, part_004:493-510.  The five weights are returned as  *)
(* the numerators raw[id] over the common denominator total; Math.max(1,.) *)
(* is max(100, .) in centi-units.                                          *)
(***************************************************************************)
RawWeight(config, id) ==
    IF getMetricConfig(config, id) = <<>> THEN 0 ELSE getMetricConfig(config, id)[1].weight

RawWeightSum(config) ==
    RawWeight(config, "volume") + RawWeight(config, "speechRate")
      + RawWeight(config, "acceleration") + RawWeight(config, "responseTime")
      + RawWeight(config, "pauseManagement")

WeightTotal(config) ==
    IF RawWeightSum(config) > 100 THEN RawWeightSum(config) ELSE 100

normalizedWeights(config) ==
    [id \in {MetricIds[i] : i \in 1..5} |-> Q(RawWeight(config, id), WeightTotal(config))]

(***************************************************************************)
(* Signal arithmetic.  A buffer is a sequence of samples in hundredths of  *)
(* full scale (100 is 1.0).  Logarithms and powers are evaluated to whole  *)
(* decibels (rounded down) from the tables of 10^(j/10) and 10^(j/20).     *)
(***************************************************************************)
RECURSIVE SumSq(_)
SumSq(buf) == IF buf = <<>> THEN 0 ELSE Head(buf) * Head(buf) + SumSq(Tail(buf))

RECURSIVE SumAbs(_)
SumAbs(buf) == IF buf = <<>> THEN 0 ELSE Abs(Head(buf)) + SumAbs(Tail(buf))

\* Float32Array.prototype.slice(from, to), 0-based, to exclusive
Slice(buf, from, to) == SubSeq(buf, from + 1, to)

Min2(a, b) == IF a < b THEN a ELSE b
Max2(a, b) == IF a > b THEN a ELSE b

\* 100 * 10^(j/10), j = 0..9
Pow10Tenths == <<100, 126, 158, 200, 251, 316, 398, 501, 631, 794>>

\* 1000 * 10^(j/20), j = 0..19
Pow10Twentieths ==
    <<1000, 1122, 1259, 1413, 1585, 1778, 1995, 2239, 2512, 2818,
      3162, 3548, 3981, 4467, 5012, 5623, 6310, 7079, 7943, 8913>>

\* 10 * Math.log10(num / den) in whole dB, num > 0, den > 0
RECURSIVE TenLog10(_, _)
TenLog10(num, den) ==
    IF num >= 10 * den THEN 10 + TenLog10(num, 10 * den)
    ELSE IF num < den THEN TenLog10(10 * num, den) - 10
    ELSE (CHOOSE j \in 1..10 :
            /\ Pow10Tenths[j] * den <= 100 * num
            /\ \A i \in 1..10 : Pow10Tenths[i] * den <= 100 * num => i <= j) - 1

RECURSIVE TenTo(_)
TenTo(q) == IF q = 0 THEN 1 ELSE 10 * TenTo(q - 1)

\* Math.pow(10, x / 20) for x in centi-dB; outside +-60 dB the value is held
\* at 10^+-3 (every caller clamps or clips far inside that range)
Pow10Db20(x) ==
    CASE x.k = "nan" -> NaN
      [] x.k = "pinf" -> PInf
      [] x.k = "ninf" -> I(0)
      [] OTHER ->
           LET db == x.n \div (x.d * 100)
               c == IF db > 60 THEN 60 ELSE IF db < -60 THEN -60 ELSE db
               q == c \div 20
               r == c % 20
           IN IF q >= 0 THEN Q(Pow10Twentieths[r + 1] * TenTo(q), 1000)
              ELSE Q(Pow10Twentieths[r + 1], 1000 * TenTo(-q))

\* part_004:197-201, in centi-dB; the floor 1e-10 of the rms gives -200 dB
calculateSegmentDb(buf) ==
    IF Len(buf) = 0 THEN NInf
    ELSE IF SumSq(buf) = 0 THEN I(-20000)
    ELSE I(100 * TenLog10(SumSq(buf), Len(buf) * 10000))

\* Math.max(-1, Math.min(1, sample * gain)), to the nearest hundredth
ScaleClip(sample, gain) ==
    LET v == XRound(XMax(I(-100), XMin(I(100), XMul(I(sample), gain))))
    IN IF IsFin(v) THEN v.n ELSE 0

ScaleBuffer(buf, gain) == [i \in 1..Len(buf) |-> ScaleClip(buf[i], gain)]

(***************************************************************************)
(* lufsNormalization.ts: loudness measurement.  LUFS values are centi-LUFS *)
(* (the offset -0.691 is the rational -69.1).                              *)
(***************************************************************************)
TARGET_LUFS == -23
MAX_RECORDING_HISTORY == 10
VARIANCE_THRESHOLD == 5

\* lufsNormalization.ts:83-95, the sums of squares of the measurement blocks
BlockSize(sampleRate) == (sampleRate * 4) \div 10
BlockHop(sampleRate) ==
    Max2(1, BlockSize(sampleRate) - (3 * BlockSize(sampleRate)) \div 4)

RECURSIVE BlockSums(_, _, _)
BlockSums(buf, sampleRate, i) ==
    IF i < Len(buf) - BlockSize(sampleRate)
    THEN <<SumSq(Slice(buf, i, i + BlockSize(sampleRate)))>>
           \o BlockSums(buf, sampleRate, i + BlockHop(sampleRate))
    ELSE <<>>

RECURSIVE SumSeq(_)
SumSeq(q) == IF q = <<>> THEN 0 ELSE Head(q) + SumSeq(Tail(q))

\* lufsNormalization.ts:106-107 (105 when no block passes the relative gate)
MeanOfBlocks(gated, final, bs) ==
    IF final = <<>> THEN <<SumSeq(gated), Len(gated) * bs * 10000>>
    ELSE <<SumSeq(final), Len(final) * bs * 10000>>

\* lufsNormalization.ts:100-104, the relative gate: ms >= avg / 10
RelativeGate(gated, bs) ==
    IF gated = <<>> THEN <<0, 1>>
    ELSE MeanOfBlocks(gated,
                      SelectSeq(gated, LAMBDA b : b * 10 * Len(gated) >= SumSeq(gated)),
                      bs)

\* lufsNormalization.ts:97-99, the absolute gate: ms >= 10^-7, where the
\* mean square of a block is its sum / (bs * 10^4)
AbsoluteGate(blocks, bs) ==
    IF blocks = <<>> THEN <<0, 1>>
    ELSE RelativeGate(SelectSeq(blocks, LAMBDA b : b * 1000 >= bs), bs)

\* lufsNormalization.ts:82-108; the mean square as <<numerator, denominator>>
\* over samples of full scale 1 (<<0, 1>> is the code's 0)
calculateMeanSquareWithGating(buf, sampleRate) ==
    AbsoluteGate(BlockSums(buf, sampleRate, 0), BlockSize(sampleRate))

\* the same with the mean square 0 read as the loudness 0
LufsOfMeanSquare_ZeroLoudness(ms) ==
    IF ms[1] = 0 THEN I(0)
    ELSE XAdd(Q(-691, 10), I(100 * TenLog10(ms[1], ms[2])))

\* lufsNormalization.ts:113-114
LufsOfMeanSquare(ms) ==
    IF ms[1] = 0 THEN NInf
    ELSE XAdd(Q(-691, 10), I(100 * TenLog10(ms[1], ms[2])))

\* lufsNormalization.ts:110-115
calculateLUFS(buf, sampleRate) ==
    IF Len(buf) = 0 THEN NInf
    ELSE LufsOfMeanSquare(calculateMeanSquareWithGating(buf, sampleRate))

\* lufsNormalization.ts:72-80, in centi-dB
calculateNoiseFloor(buf, sampleRate) ==
    LET seg == Slice(buf, 0, Min2(sampleRate \div 10, Len(buf)))
    IN IF Len(seg) = 0 THEN NInf ELSE calculateSegmentDb(seg)

\* lufsNormalization.ts:124-134
NormalizeFrom(buf, currentLUFS, gainLinear) ==
    IF ~IsFin(currentLUFS)
    THEN [normalized |-> buf, currentLUFS |-> NInf, gainLinear |-> I(1)]
    ELSE [normalized |-> ScaleBuffer(buf, gainLinear),
          currentLUFS |-> currentLUFS, gainLinear |-> gainLinear]

\* lufsNormalization.ts:117-135
normalizeToLUFS(buf, sampleRate, targetLUFS) ==
    NormalizeFrom(buf, calculateLUFS(buf, sampleRate),
                  Pow10Db20(XSub(I(100 * targetLUFS), calculateLUFS(buf, sampleRate))))

(***************************************************************************)
(* lufsNormalization.ts: the calibration store, localStorage under         *)
(* CALIBRATION_STORAGE_KEY.  kind: "absent", "unparsable", "nonarray" (a   *)
(* JSON value that is no array), "array" (the profiles).  JSON.stringify   *)
(* writes a non-finite number as null; null reads back as null.            *)
(***************************************************************************)
JNull == [k |-> "null", n |-> 0, d |-> 1]

Jsonify(x) == IF IsFin(x) THEN x ELSE JNull

\* ToNumber of a value read back from JSON
ToNum(x) == IF x.k = "null" THEN I(0) ELSE x

Store(kind, profiles) == [kind |-> kind, profiles |-> profiles]

Profile(deviceId, noiseFloor, referenceLevel, gain, createdAt, lastUsed, history) ==
    [deviceId |-> deviceId, noiseFloor |-> noiseFloor,
     referenceLevel |-> referenceLevel, gainAdjustment |-> gain,
     createdAt |-> createdAt, lastUsed |-> lastUsed, recordingHistory |-> history]

Stats(timestamp, originalLUFS, calibratedLUFS, finalLUFS, noiseFloor) ==
    [timestamp |-> timestamp, originalLUFS |-> originalLUFS,
     calibratedLUFS |-> calibratedLUFS, finalLUFS |-> finalLUFS,
     noiseFloor |-> noiseFloor]

JsonStats(h) ==
    Stats(h.timestamp, Jsonify(h.originalLUFS), Jsonify(h.calibratedLUFS),
          Jsonify(h.finalLUFS), Jsonify(h.noiseFloor))

\* JSON.parse(JSON.stringify(profile))
JsonProfile(p) ==
    Profile(p.deviceId, Jsonify(p.noiseFloor), Jsonify(p.referenceLevel),
            Jsonify(p.gainAdjustment), p.createdAt, p.lastUsed,
            [i \in 1..Len(p.recordingHistory) |-> JsonStats(p.recordingHistory[i])])

\* lufsNormalization.ts:49-56; isArray = the parsed value has the array methods
getCalibrationProfiles(st) ==
    CASE st.kind = "array" -> [isArray |-> TRUE, list |-> st.profiles]
      [] st.kind = "nonarray" -> [isArray |-> FALSE, list |-> <<>>]
      [] OTHER -> [isArray |-> TRUE, list |-> <<>>]

\* Array.prototype.findIndex by deviceId (0 = not found)
FindDevice(list, deviceId) ==
    LET hits == {i \in 1..Len(list) : list[i].deviceId = deviceId}
    IN IF hits = {} THEN 0 ELSE CHOOSE i \in hits : \A j \in hits : i <= j

\* the save that writes the list of the one profile
saveCalibrationProfile_Overwrite(st, profile) ==
    IF ~getCalibrationProfiles(st).isArray THEN st
    ELSE Store("array", <<JsonProfile(profile)>>)

\* lufsNormalization.ts:37-47; the store after the call (a TypeError on a
\* value that is no array is caught and the store left as it is)
saveCalibrationProfile(st, profile) ==
    LET got == getCalibrationProfiles(st)
        idx == FindDevice(got.list, profile.deviceId)
    IN IF ~got.isArray THEN st
       ELSE IF idx > 0
       THEN Store("array", [got.list EXCEPT ![idx] = JsonProfile(profile)])
       ELSE Store("array", Append(got.list, JsonProfile(profile)))

NoProfile == <<>>

\* getCalibrationProfile that also resets createdAt on the lookup
getCalibrationProfile_Renew(st, deviceId, now) ==
    LET got == getCalibrationProfiles(st)
        idx == FindDevice(got.list, deviceId)
    IN IF ~got.isArray THEN [threw |-> TRUE, profile |-> NoProfile, store |-> st]
       ELSE IF idx = 0 THEN [threw |-> FALSE, profile |-> NoProfile, store |-> st]
       ELSE LET touched == [got.list[idx] EXCEPT !.lastUsed = now, !.createdAt = now]
            IN [threw |-> FALSE, profile |-> <<touched>>,
                store |-> saveCalibrationProfile(st, touched)]

\* lufsNormalization.ts:58-65; profile is <<>> for null, else <<profile>>
getCalibrationProfile(st, deviceId, now) ==
    LET got == getCalibrationProfiles(st)
        idx == FindDevice(got.list, deviceId)
    IN IF ~got.isArray THEN [threw |-> TRUE, profile |-> NoProfile, store |-> st]
       ELSE IF idx = 0 THEN [threw |-> FALSE, profile |-> NoProfile, store |-> st]
       ELSE LET touched == [got.list[idx] EXCEPT !.lastUsed = now]
            IN [threw |-> FALSE, profile |-> <<touched>>,
                store |-> saveCalibrationProfile(st, touched)]

\* the delete that empties the list
deleteCalibrationProfile_Clear(st, deviceId) ==
    LET got == getCalibrationProfiles(st)
    IN IF ~got.isArray THEN [threw |-> TRUE, store |-> st]
       ELSE [threw |-> FALSE, store |-> Store("array", <<>>)]

\* lufsNormalization.ts:67-70
deleteCalibrationProfile(st, deviceId) ==
    LET got == getCalibrationProfiles(st)
    IN IF ~got.isArray THEN [threw |-> TRUE, store |-> st]
       ELSE [threw |-> FALSE,
             store |-> Store("array", SelectSeq(got.list, LAMBDA p : p.deviceId # deviceId))]

\* the same without the clamp of the gain
createCalibrationProfile_NoClamp(deviceId, noiseFloor, referenceLevel, targetLevel, now) ==
    Profile(deviceId, noiseFloor, referenceLevel,
            Pow10Db20(XSub(targetLevel, referenceLevel)), now, now, <<>>)

\* lufsNormalization.ts:137-157; levels in centi-LUFS
createCalibrationProfile(deviceId, noiseFloor, referenceLevel, targetLevel, now) ==
    LET gainDB == XSub(targetLevel, referenceLevel)
        gainAdjustment == Pow10Db20(gainDB)
    IN Profile(deviceId, noiseFloor, referenceLevel,
               XMax(Q(1, 10), XMin(I(10), gainAdjustment)), now, now, <<>>)

\* Array.prototype.slice(-n)
LastN(q, n) == IF Len(q) > n THEN SubSeq(q, Len(q) - n + 1, Len(q)) ELSE q

\* the trim that keeps the oldest entries
TrimHistory_KeepOldest(history) ==
    SubSeq(history, 1, Min2(Len(history), MAX_RECORDING_HISTORY))

\* lufsNormalization.ts:165-167
TrimHistory(history) ==
    IF Len(history) > MAX_RECORDING_HISTORY
    THEN LastN(history, MAX_RECORDING_HISTORY)
    ELSE history

\* trackRecording that starts a profile for a device that has none
trackRecording_Create(st, deviceId, stats, now) ==
    LET got == getCalibrationProfile(st, deviceId, now)
    IN IF got.threw THEN [threw |-> TRUE, store |-> st]
       ELSE IF got.profile = NoProfile
       THEN [threw |-> FALSE,
             store |-> saveCalibrationProfile(got.store,
                          [createCalibrationProfile(deviceId, I(0), I(0), I(0), now)
                              EXCEPT !.recordingHistory = <<[stats EXCEPT !.timestamp = now]>>])]
       ELSE LET profile == got.profile[1]
                pushed == Append(profile.recordingHistory,
                                 [stats EXCEPT !.timestamp = now])
                next == [profile EXCEPT !.recordingHistory = TrimHistory(pushed)]
            IN [threw |-> FALSE, store |-> saveCalibrationProfile(got.store, next)]

\* lufsNormalization.ts:159-170
trackRecording(st, deviceId, stats, now) ==
    LET got == getCalibrationProfile(st, deviceId, now)
    IN IF got.threw THEN [threw |-> TRUE, store |-> st]
       ELSE IF got.profile = NoProfile THEN [threw |-> FALSE, store |-> got.store]
       ELSE LET profile == got.profile[1]
                pushed == Append(profile.recordingHistory,
                                 [stats EXCEPT !.timestamp = now])
                next == [profile EXCEPT !.recordingHistory = TrimHistory(pushed)]
            IN [threw |-> FALSE, store |-> saveCalibrationProfile(got.store, next)]

\* lufsNormalization.ts:269-276, tracked is what trackRecording left
CalibrateResult(deviceGain, originalLUFS, calibratedLUFS, norm, finalLUFS, tracked) ==
    [threw |-> tracked.threw, normalized |-> norm.normalized,
     originalLUFS |-> originalLUFS, calibratedLUFS |-> calibratedLUFS,
     finalLUFS |-> finalLUFS, deviceGain |-> deviceGain,
     normalizationGain |-> norm.gainLinear, store |-> tracked.store]

\* lufsNormalization.ts:260-267
CalibrateTrack(buf, sampleRate, deviceId, st, now, deviceGain, originalLUFS, calibratedLUFS, norm, finalLUFS) ==
    CalibrateResult(deviceGain, originalLUFS, calibratedLUFS, norm, finalLUFS,
                    IF deviceId # ""
                    THEN trackRecording(st, deviceId,
                           Stats(now, originalLUFS, calibratedLUFS, finalLUFS,
                                 calculateNoiseFloor(buf, sampleRate)), now)
                    ELSE [threw |-> FALSE, store |-> st])

\* lufsNormalization.ts:243 and 256-258
CalibrateNormalize(buf, sampleRate, deviceId, st, now, deviceGain, processed, norm) ==
    CalibrateTrack(buf, sampleRate, deviceId, st, now, deviceGain,
                   calculateLUFS(buf, sampleRate), calculateLUFS(processed, sampleRate),
                   norm, calculateLUFS(norm.normalized, sampleRate))

\* lufsNormalization.ts:247-254; gain is <<g>> when the profile has a gain
\* other than 1, else <<>>
CalibrateGain(buf, sampleRate, deviceId, targetLUFS, st, now, gain, processed) ==
    CalibrateNormalize(buf, sampleRate, deviceId, st, now,
                       IF gain # <<>> THEN gain[1] ELSE I(1),
                       processed, normalizeToLUFS(processed, sampleRate, targetLUFS))

\* lufsNormalization.ts:245-247, got is what getCalibrationProfile returned
CalibrateRead(buf, sampleRate, deviceId, targetLUFS, st, now, got, gain) ==
    IF got.threw
    THEN [threw |-> TRUE, normalized |-> buf, originalLUFS |-> NaN,
          calibratedLUFS |-> NaN, finalLUFS |-> NaN, deviceGain |-> I(1),
          normalizationGain |-> I(1), store |-> st]
    ELSE CalibrateGain(buf, sampleRate, deviceId, targetLUFS, got.store, now, gain,
                       IF gain # <<>> THEN ScaleBuffer(buf, ToNum(gain[1])) ELSE buf)

\* profile && profile.gainAdjustment !== 1
AppliedGain(profile) ==
    IF profile # NoProfile /\ profile[1].gainAdjustment # I(1)
    THEN <<profile[1].gainAdjustment>>
    ELSE <<>>

NotRead(st) == [threw |-> FALSE, profile |-> NoProfile, store |-> st]

\* lufsNormalization.ts:228-277; deviceId "" = undefined
calibrateAndNormalize(buf, sampleRate, deviceId, targetLUFS, st, now) ==
    IF deviceId # ""
    THEN CalibrateRead(buf, sampleRate, deviceId, targetLUFS, st, now,
                       getCalibrationProfile(st, deviceId, now),
                       AppliedGain(getCalibrationProfile(st, deviceId, now).profile))
    ELSE CalibrateRead(buf, sampleRate, deviceId, targetLUFS, st, now, NotRead(st), <<>>)

(***************************************************************************)
(* part_004: the five analyzers.  Scores are extended rationals; decibel   *)
(* values are centi-dB.  Thresholds of a configuration entry are centi-    *)
(* units of the metric (dB, words per minute, ms, pause ratio).            *)
(***************************************************************************)
Thresholds(mn, idl, mx) == [min |-> mn, ideal |-> idl, max |-> mx]

\* getMetricConfig(config, id)?.thresholds ?? fallback
ThresholdsOf(config, id, fallback) ==
    LET m == getMetricConfig(config, id)
    IN IF m = <<>> THEN fallback ELSE Thresholds(m[1].min, m[1].ideal, m[1].max)

\* the volume score falling by 10 per dB above max
VolumeScore_SteepAbove(db, tmin, ideal, tmax, midpoint) ==
    IF XGe(db, ideal) /\ XLe(db, tmax)
    THEN IF XLe(db, midpoint)
         THEN XAdd(I(90), XMul(XDiv(XSub(db, ideal), XSub(midpoint, ideal)), I(10)))
         ELSE XSub(I(100), XMul(XDiv(XSub(db, midpoint), XSub(tmax, midpoint)), I(10)))
    ELSE IF XGt(db, tmax)
    THEN XMax(I(0), XSub(I(90), XDiv(XSub(db, tmax), I(10))))
    ELSE IF XGe(db, tmin)
    THEN XMul(XDiv(XSub(db, tmin), XSub(ideal, tmin)), I(90))
    ELSE I(0)

\* part_004:208-215
VolumeScore(db, tmin, ideal, tmax, midpoint) ==
    IF XGe(db, ideal) /\ XLe(db, tmax)
    THEN IF XLe(db, midpoint)
         THEN XAdd(I(90), XMul(XDiv(XSub(db, ideal), XSub(midpoint, ideal)), I(10)))
         ELSE XSub(I(100), XMul(XDiv(XSub(db, midpoint), XSub(tmax, midpoint)), I(10)))
    ELSE IF XGt(db, tmax)
    THEN XMax(I(0), XSub(I(90), XDiv(XSub(db, tmax), I(20))))
    ELSE IF XGe(db, tmin)
    THEN XMul(XDiv(XSub(db, tmin), XSub(ideal, tmin)), I(90))
    ELSE I(0)

VolumeResult(db, t) ==
    [averageDb |-> db,
     score |-> Clamp100(VolumeScore(db, I(t.min), I(t.ideal), I(t.max),
                                    XDiv(XAdd(I(t.ideal), I(t.max)), I(2))))]

\* part_004:203-218; deviceDbOffset in centi-dB
analyzeVolume(audioBuffer, config, deviceDbOffset) ==
    VolumeResult(XAdd(calculateSegmentDb(audioBuffer), deviceDbOffset),
                 ThresholdsOf(config, "volume", Thresholds(-3500, -1500, 0)))

\* Math.floor(sampleRate * 0.02), Math.floor(sampleRate * 0.05), Math.floor(sampleRate * 0.1)
Frame20ms(sampleRate) == (sampleRate * 2) \div 100
Frame50ms(sampleRate) == (sampleRate * 5) \div 100
Frame100ms(sampleRate) == sampleRate \div 10

\* part_004:224-228, the frame energies as sums of squares (the common
\* divisor frame is dropped: only their order and ratios are used)
RECURSIVE FrameEnergies(_, _, _, _)
FrameEnergies(buf, frame, hop, i) ==
    IF i < Len(buf) - frame
    THEN <<SumSq(Slice(buf, i, i + frame))>> \o FrameEnergies(buf, frame, hop, i + hop)
    ELSE <<>>

RECURSIVE SeqMax(_)
SeqMax(q) == IF Len(q) = 1 THEN q[1] ELSE Max2(Head(q), SeqMax(Tail(q)))

\* the peak-picking loops of part_004:231-238 and 276-284: i is the 0-based
\* index, scale * x > bound the threshold test, gap the least distance of
\* two peaks
RECURSIVE CountPeaks(_, _, _, _, _, _)
CountPeaks(xs, scale, bound, gap, i, last) ==
    IF i >= Len(xs) - 1 THEN 0
    ELSE IF /\ scale * xs[i + 1] > bound
            /\ xs[i + 1] > xs[i] /\ xs[i + 1] > xs[i + 2] /\ i - last > gap
         THEN 1 + CountPeaks(xs, scale, bound, gap, i + 1, i)
         ELSE CountPeaks(xs, scale, bound, gap, i + 1, last)

\* part_004:220-240
detectSyllablesEnergy(audioBuffer, sampleRate) ==
    LET frame == Frame20ms(sampleRate)
        hop == Max2(1, frame \div 2)
        energies == FrameEnergies(audioBuffer, frame, hop, 0)
    IN IF energies = <<>> THEN 0
       ELSE CountPeaks(energies, 100, 15 * SeqMax(energies), 3, 1, -10)

\* part_004:248-270 for frames of one sample: every bin of the transform of
\* the frame <<s>> is |s|, so the flux of a frame is 128 * max(0, |s| - |prev|);
\* the factor 128 is dropped
RECURSIVE SpectralFlux(_, _)
SpectralFlux(buf, prev) ==
    IF buf = <<>> THEN <<>>
    ELSE <<Max2(0, Abs(Head(buf)) - prev)>> \o SpectralFlux(Tail(buf), Abs(Head(buf)))

\* Array.prototype.sort((a, b) => a - b)
RECURSIVE SortAsc(_)
SortAsc(q) ==
    IF q = <<>> THEN <<>>
    ELSE LET m == CHOOSE i \in 1..Len(q) : \A j \in 1..Len(q) : q[i] <= q[j]
         IN <<q[m]>> \o SortAsc(SubSeq(q, 1, m - 1) \o SubSeq(q, m + 1, Len(q)))

\* part_004:273-285: twice the threshold is
\* max(median * 1.5, (upper || median) * 0.5) * 2
FluxPeaks(flux, median, upper) ==
    Max2(1, CountPeaks(flux, 2,
                       Max2(3 * median, IF upper # 0 THEN upper ELSE median),
                       4, 1, -5))

FluxQuantiles(flux, sorted) ==
    FluxPeaks(flux, sorted[Len(sorted) \div 2 + 1], sorted[(3 * Len(sorted)) \div 4 + 1])

\* part_004:242-286, for a sample rate whose 20 ms frame is one sample
detectSyllablesSpectralFlux(audioBuffer, sampleRate) ==
    IF audioBuffer = <<>> THEN 0
    ELSE FluxQuantiles(SpectralFlux(audioBuffer, 0), SortAsc(SpectralFlux(audioBuffer, 0)))

\* part_004:309-315; wpm an extended rational
scoreSpeechRate(wpm, config) ==
    LET t == ThresholdsOf(config, "speechRate", Thresholds(9000, 15000, 22000))
        tmin == Q(t.min, 100)
        ideal == Q(t.ideal, 100)
    IN IF XLe(wpm, I(0)) THEN I(0)
       ELSE IF XLt(wpm, tmin) THEN I(0)
       ELSE IF XLt(wpm, ideal)
       THEN XMul(XDiv(XSub(wpm, tmin), XSub(ideal, tmin)), I(100))
       ELSE I(100)

\* part_004:332-337, the words per minute of a word count
WordsPerMinute(wordCount, durationSeconds) ==
    IF XGt(durationSeconds, I(0))
    THEN XRound(XMul(XDiv(I(wordCount), durationSeconds), I(60)))
    ELSE I(0)

\* part_004:349-359
SpeechRateResult(wpm, config, usedMethod) ==
    [wordsPerMinute |-> wpm, score |-> Clamp100(scoreSpeechRate(wpm, config)),
     method |-> usedMethod]

\* part_004:344-346
SyllableRate(syllables, durationSeconds) ==
    XRound(XDiv(XMul(IF XGt(durationSeconds, I(0))
                     THEN XDiv(I(syllables), durationSeconds)
                     ELSE I(0),
                     I(60)),
                Q(3, 2)))

\* part_004:343-359: wordsPerMinute is what the transcription branch left
\* (0 when it did not run or failed), usedMethod the method after it
SpeechRateFrom(audioBuffer, sampleRate, config, durationSeconds, wordsPerMinute, usedMethod) ==
    IF wordsPerMinute = I(0) \/ IsNaN(wordsPerMinute)
    THEN SpeechRateResult(
           SyllableRate(IF usedMethod = "spectral-flux"
                        THEN detectSyllablesSpectralFlux(audioBuffer, sampleRate)
                        ELSE detectSyllablesEnergy(audioBuffer, sampleRate),
                        durationSeconds),
           config, usedMethod)
    ELSE SpeechRateResult(wordsPerMinute, config, usedMethod)

\* part_004:372-373, the syllable rate of a segment
SegmentRate(seg, sampleRate) ==
    XRound(XMul(XDiv(XDiv(I(detectSyllablesSpectralFlux(seg, sampleRate)),
                          XMax(Q(Len(seg), sampleRate), Q(1, 10))),
                     Q(3, 2)),
                I(60)))

\* part_004:375-378; volumeIncrease in dB
AccelerationResult(volumeIncrease, rateIncrease) ==
    [score |-> XRound(XMax(I(0), XMin(I(100),
                 XAdd(I(50), XMax(I(0), XAdd(XMul(volumeIncrease, I(2)),
                                             XMul(rateIncrease, Q(1, 2)))))))),
     isAccelerating |-> XGt(volumeIncrease, I(0)) \/ XGt(rateIncrease, I(5))]

AccelerationOf(seg1, seg2, sampleRate) ==
    AccelerationResult(
        XDiv(XSub(calculateSegmentDb(seg2), calculateSegmentDb(seg1)), I(100)),
        XSub(SegmentRate(seg2, sampleRate), SegmentRate(seg1, sampleRate)))

\* part_004:363-390
analyzeAcceleration(audioBuffer, sampleRate, config) ==
    AccelerationOf(Slice(audioBuffer, 0, Len(audioBuffer) \div 2),
                   Slice(audioBuffer, Len(audioBuffer) \div 2, Len(audioBuffer)),
                   sampleRate)

\* part_004:414-422 and the test of 398: |sample| > max(0.005, 3 * rms) over
\* the first 100 ms (0.01 when the buffer is empty)
AboveNoiseFloor(sample, audioBuffer, sampleRate) ==
    LET segment == Slice(audioBuffer, 0, Min2(Frame100ms(sampleRate), Len(audioBuffer)))
    IN IF segment = <<>> THEN Abs(sample) > 1
       ELSE /\ 2 * Abs(sample) > 1
            /\ sample * sample * Len(segment) > 9 * SumSq(segment)

\* part_004:397-402, the 0-based index of the first sample above the floor
FirstAbove(audioBuffer, sampleRate) ==
    LET hits == {i \in 1..Len(audioBuffer) :
                    AboveNoiseFloor(audioBuffer[i], audioBuffer, sampleRate)}
    IN IF hits = {} THEN 0 ELSE (CHOOSE i \in hits : \A j \in hits : i <= j) - 1

\* part_004:406-409
ResponseResult(responseTimeMs, tmin, ideal) ==
    [responseTimeMs |-> responseTimeMs,
     score |-> Clamp100(
        IF XLe(responseTimeMs, ideal) THEN I(100)
        ELSE IF XLe(responseTimeMs, tmin)
        THEN XSub(I(100), XMul(XDiv(XSub(responseTimeMs, ideal), XSub(tmin, ideal)), I(50)))
        ELSE XMax(I(0), XMul(I(50), XSub(I(1), XDiv(XSub(responseTimeMs, tmin), I(3000))))))]

ResponseWith(first, sampleRate, t) ==
    ResponseResult(XRound(Q(first * 1000, sampleRate)), Q(t.min, 100), Q(t.ideal, 100))

\* part_004:392-412
analyzeResponseTime(audioBuffer, sampleRate, config) ==
    ResponseWith(FirstAbove(audioBuffer, sampleRate), sampleRate,
                 ThresholdsOf(config, "responseTime", Thresholds(200000, 20000, 0)))

\* voice-activity metrics: speechRatio in thousandths, totalSpeechTime in ms,
\* speechSegments a sequence of [start, end] in ms
Vad(speechRatio, totalSpeechTime, speechSegments) ==
    [speechRatio |-> speechRatio, totalSpeechTime |-> totalSpeechTime,
     speechSegments |-> speechSegments]

Seg(start, end) == [start |-> start, end |-> end]

NoVad == <<>>

\* [...speechSegments].sort((a, b) => a.start - b.start), a stable sort
RECURSIVE SortByStart(_)
SortByStart(segs) ==
    IF segs = <<>> THEN <<>>
    ELSE LET firsts == {i \in 1..Len(segs) : \A j \in 1..Len(segs) : segs[i].start <= segs[j].start}
             m == CHOOSE i \in firsts : \A j \in firsts : i <= j
         IN <<segs[m]>> \o SortByStart(SubSeq(segs, 1, m - 1) \o SubSeq(segs, m + 1, Len(segs)))

\* part_004:436-439: the gaps before the segments and the cursor after them
RECURSIVE VadGaps(_, _)
VadGaps(sorted, cursor) ==
    IF sorted = <<>> THEN [pausesMs |-> <<>>, cursor |-> cursor]
    ELSE LET seg == Head(sorted)
             rest == VadGaps(Tail(sorted), Max2(cursor, seg.end))
         IN [pausesMs |-> (IF seg.start > cursor THEN <<I(seg.start - cursor)>> ELSE <<>>)
                            \o rest.pausesMs,
             cursor |-> rest.cursor]

\* part_004:432-446, the pauses of at least 150 ms between the segments
VadPauseCount(audioBuffer, sampleRate, vad) ==
    LET gaps == VadGaps(SortByStart(vad.speechSegments), 0)
        totalMs == Q(Len(audioBuffer) * 1000, sampleRate)
        pausesMs == IF XLt(I(gaps.cursor), totalMs)
                    THEN Append(gaps.pausesMs, XSub(totalMs, I(gaps.cursor)))
                    ELSE gaps.pausesMs
    IN Len(SelectSeq(pausesMs, LAMBDA p : XGe(p, I(150))))

\* part_004:455-469, the loop over the 50 ms frames from offset i on:
\* currentSilent counts frames (a frame lasts frame / sampleRate seconds)
RECURSIVE PauseFrames(_, _, _, _, _)
PauseFrames(buf, frame, sampleRate, i, acc) ==
    IF i < Len(buf) - frame
    THEN LET silent == SumAbs(Slice(buf, i, i + frame)) < frame    \* mean |s| < 0.01
             long == acc.currentSilent * frame * 100 >= 15 * sampleRate
         IN PauseFrames(buf, frame, sampleRate, i + frame,
              [silentFrames |-> acc.silentFrames + (IF silent THEN 1 ELSE 0),
               totalFrames |-> acc.totalFrames + 1,
               currentSilent |-> IF silent THEN acc.currentSilent + 1 ELSE 0,
               pauses |-> acc.pauses + (IF ~silent /\ long THEN 1 ELSE 0)])
    ELSE acc

\* part_004:477-480
PauseScore(pauseRatio, tmax) ==
    IF XGt(pauseRatio, Q(1, 10))
    THEN XMax(I(0), XSub(I(100), XMul(XDiv(XSub(pauseRatio, Q(1, 10)), tmax), I(100))))
    ELSE I(100)

PauseResult(pauseCount, pauseRatio, t) ==
    [pauseCount |-> pauseCount, pauseRatio |-> pauseRatio,
     score |-> Clamp100(PauseScore(pauseRatio, Q(t.max, 100)))]

\* part_004:471-474, from the counts of the loop
FramePauses(fr, frame, sampleRate, t) ==
    PauseResult(fr.pauses
                  + (IF fr.currentSilent * frame * 100 >= 15 * sampleRate THEN 1 ELSE 0),
                Q(fr.silentFrames, Max2(1, fr.totalFrames)), t)

\* part_004:424-491
analyzePauses(audioBuffer, sampleRate, config, vadMetrics) ==
    IF vadMetrics # NoVad /\ vadMetrics[1].speechSegments # <<>>
    THEN PauseResult(VadPauseCount(audioBuffer, sampleRate, vadMetrics[1]),
                     XSub(I(1), XMax(I(0), XMin(I(1), Q(vadMetrics[1].speechRatio, 1000)))),
                     ThresholdsOf(config, "pauseManagement", Thresholds(0, 0, 271)))
    ELSE FramePauses(PauseFrames(audioBuffer, Frame50ms(sampleRate), sampleRate, 0,
                        [silentFrames |-> 0, totalFrames |-> 0, currentSilent |-> 0,
                         pauses |-> 0]),
                     Frame50ms(sampleRate), sampleRate,
                     ThresholdsOf(config, "pauseManagement", Thresholds(0, 0, 271)))

\* part_004:512-533; the messages by a key:
\*   "louder"    Speak louder and keep your voice energy more stable.
\*   "faster"    Try speaking a bit faster for more natural fluency.
\*   "slower"    Slow down slightly to improve clarity.
\*   "sooner"    Start speaking sooner after the prompt.
\*   "pauses"    Reduce long pauses to keep smoother flow.
\*   "momentum"  Build momentum from start to finish.
\*   "excellent" Excellent work. Strong delivery and control.
\*   "great"     Great job. Keep this rhythm and consistency.
buildFeedback(volume, speechRate, acceleration, responseTime, pauses, overallScore) ==
    LET feedback ==
          (IF XLt(volume.score, I(60)) THEN <<"louder">> ELSE <<>>)
          \o (IF XLt(speechRate.score, I(60))
              THEN IF XLt(speechRate.wordsPerMinute, I(100)) THEN <<"faster">> ELSE <<"slower">>
              ELSE <<>>)
          \o (IF XLt(responseTime.score, I(60)) THEN <<"sooner">> ELSE <<>>)
          \o (IF XLt(pauses.score, I(60)) THEN <<"pauses">> ELSE <<>>)
          \o (IF XLt(acceleration.score, I(60)) THEN <<"momentum">> ELSE <<>>)
    IN IF feedback = <<>>
       THEN IF XGe(overallScore, I(90)) THEN <<"excellent">> ELSE <<"great">>
       ELSE feedback

\* part_004:613-620 and 658-665
OverallScore(scores, weights) ==
    XRound(XAdd(XMul(scores.volume, weights["volume"]),
           XAdd(XMul(scores.speechRate, weights["speechRate"]),
           XAdd(XMul(scores.acceleration, weights["acceleration"]),
           XAdd(XMul(scores.responseTime, weights["responseTime"]),
                XMul(scores.pauseManagement, weights["pauseManagement"]))))))

\* part_004:622, 675
EmotionalFeedback(overallScore) ==
    IF XGe(overallScore, I(70)) THEN "excellent"
    ELSE IF XGe(overallScore, I(40)) THEN "good" ELSE "poor"

Scores(volume, speechRate, acceleration, responseTime, pauseManagement) ==
    [volume |-> volume, speechRate |-> speechRate, acceleration |-> acceleration,
     responseTime |-> responseTime, pauseManagement |-> pauseManagement]

\* an AnalysisResult: the five scores (result.metrics), the aggregate and the
\* fields the feedback and the reports read
Result(scores, overallScore, emotionalFeedback, feedback, averageDb, wordsPerMinute, method) ==
    [kind |-> "result", scores |-> scores, overallScore |-> overallScore,
     emotionalFeedback |-> emotionalFeedback, feedback |-> feedback,
     averageDb |-> averageDb, wordsPerMinute |-> wordsPerMinute, method |-> method]

\* part_004:551-572; "nospeech" is
\*   No speech detected. Please try again and speak clearly.
NoSpeechResult(method) ==
    Result(Scores(I(0), I(0), I(0), I(0), I(0)), I(0), "poor", <<"nospeech">>,
           NInf, I(0), method)

\* part_004:622-643 and 666-685
AssembleWith(volume, speechRate, acceleration, responseTime, pauseManagement, overallScore) ==
    Result(Scores(volume.score, speechRate.score, acceleration.score,
                  responseTime.score, pauseManagement.score),
           overallScore, EmotionalFeedback(overallScore),
           buildFeedback(volume, speechRate, acceleration, responseTime,
                         pauseManagement, overallScore),
           volume.averageDb, speechRate.wordsPerMinute, speechRate.method)

\* part_004:610-643 and 656-685: the result from the five metric results
Assemble(volume, speechRate, acceleration, responseTime, pauseManagement, config) ==
    AssembleWith(volume, speechRate, acceleration, responseTime, pauseManagement,
                 OverallScore(Scores(volume.score, speechRate.score, acceleration.score,
                                     responseTime.score, pauseManagement.score),
                              normalizedWeights(config)))

\* part_004:646-686; config is getConfigFromLocalStorage() || DEFAULT_CONFIG
analyzeAudio(audioBuffer, sampleRate, raw) ==
    LET local == getConfigFromLocalStorage(raw).val
        config == IF local # NullConfig THEN local ELSE DEFAULT_CONFIG
    IN Assemble(analyzeVolume(audioBuffer, config, I(0)),
                [wordsPerMinute |-> I(0), score |-> I(0), method |-> "energy-peaks"],
                analyzeAcceleration(audioBuffer, sampleRate, config),
                analyzeResponseTime(audioBuffer, sampleRate, config),
                analyzePauses(audioBuffer, sampleRate, config, NoVad),
                config)

\* part_004:191-195; localMethod is localStorage["speechRateMethod"] ("" = null)
getSpeechRateMethod(config, localMethod) ==
    IF localMethod # "" THEN localMethod
    ELSE LET m == getMetricConfig(config, "speechRate")
         IN IF m = <<>> \/ m[1].method = "" THEN "spectral-flux" ELSE m[1].method

\* the no-speech test taken as the claim words it
HasSpeech_AsWorded(vadMetrics) ==
    IF vadMetrics # NoVad
    THEN ~(vadMetrics[1].speechRatio <= 20 /\ vadMetrics[1].totalSpeechTime < 200)
    ELSE TRUE

\* part_004:549
HasSpeech(vadMetrics) ==
    IF vadMetrics # NoVad
    THEN vadMetrics[1].speechRatio > 20 /\ vadMetrics[1].totalSpeechTime > 200
    ELSE TRUE

\* part_004:599-602
DurationSeconds(processed, sampleRate, vadMetrics) ==
    LET durationTotal == Q(Len(processed), sampleRate)
    IN IF vadMetrics # NoVad
       THEN XMax(Q(1, 10),
                 XSub(durationTotal,
                      XDiv(XSub(durationTotal, Q(vadMetrics[1].totalSpeechTime, 1000)), I(2))))
       ELSE XMax(Q(1, 10), durationTotal)

(***************************************************************************)
(* Inputs.                                                                 *)
(***************************************************************************)
None == <<>>

LocalItems ==
    { Obj("volume", TRUE, <<4000>>, None, None, None),           \* weight 40
      Obj("pauseManagement", TRUE, <<1000>>, None, None, None),  \* weight 10
      Obj("volume", TRUE, <<50>>, None, None, None),             \* weight 0.5
      Obj("volume", FALSE, <<4000>>, None, None, None),          \* disabled
      Obj("speechRate", TRUE, <<0>>, None, None, None),          \* weight 0
      Obj("tempo", TRUE, <<3000>>, <<100>>, None, None),         \* unknown id
      NullItem,
      PrimItem }

RECURSIVE SeqsUpTo(_, _)
SeqsUpTo(S, n) ==
    IF n = 0 THEN {<<>>}
    ELSE LET shorter == SeqsUpTo(S, n - 1)
         IN shorter \cup {Append(q, x) : q \in shorter, x \in S}

LocalOverrides ==
    {Raw("absent", <<>>), Raw("unparsable", <<>>), Raw("nonarray", <<>>)}
      \cup {Raw("array", items) : items \in SeqsUpTo(LocalItems, MaxOverrideLen)}

\* the overrides the cache specification switches between
FewOverrides ==
    { Raw("absent", <<>>), Raw("unparsable", <<>>),
      Raw("array", <<Obj("volume", TRUE, <<4000>>, None, None, None)>>) }

\* the rows seeded by the migration 20260112133438 (lines 435-440)
SeededRows ==
    << Row("volume", 200, <<-4500>>, <<-2000>>),
       Row("speech_rate", 250, <<8000>>, <<15000>>),
       Row("pauses", 150, <<0>>, <<150>>),
       Row("latency", 150, <<0>>, <<50000>>),
       Row("end_intensity", 250, <<0>>, <<10000>>) >>

RemoteResponses ==
    { Resp("error", <<>>), Resp("throw", <<>>), Resp("rows", <<>>),
      Resp("rows", SeededRows),
      Resp("rows", <<Row("volume", 1000, None, None), Row("deadline", 500, <<0>>, <<100>>)>>),
      Resp("rows", <<Row("pauses", 4, None, <<300>>)>>) }

NoResp == Resp("none", <<>>)

(***************************************************************************)
(* getConfigAsync, part_004:179-189, as the two steps around its await.    *)
(***************************************************************************)
CallInit ==
    /\ callPc = [c \in Callers |-> "idle"]
    /\ callNow = [c \in Callers |-> 0]
    /\ callResult = [c \in Callers |-> NullConfig]
    /\ callOutcome = [c \in Callers |-> "none"]
    /\ callFetches = [c \in Callers |-> 0]
    /\ callResp = [c \in Callers |-> NoResp]

\* the call settles: pc "done" with the outcome and the value
Settle(c, outcome, val) ==
    /\ callPc' = [callPc EXCEPT ![c] = "done"]
    /\ callOutcome' = [callOutcome EXCEPT ![c] = outcome]
    /\ callResult' = [callResult EXCEPT ![c] = val]

\* part_004:180-185, up to the await of fetchConfigFromDB
GetConfigStartBody(c) ==
    /\ callPc[c] = "idle"
    /\ LET local == getConfigFromLocalStorage(localRaw)
       IN IF local.threw
          THEN /\ Settle(c, "rejected", NullConfig)
               /\ UNCHANGED <<callNow, callFetches>>
          ELSE IF local.val # NullConfig
          THEN /\ Settle(c, "resolved", local.val)
               /\ UNCHANGED <<callNow, callFetches>>
          ELSE /\ callNow' = [callNow EXCEPT ![c] = clock]
               /\ IF CacheStale(cachedConfig, cachedAt, clock)
                  THEN /\ callPc' = [callPc EXCEPT ![c] = "fetching"]
                       /\ callFetches' = [callFetches EXCEPT ![c] = @ + 1]
                       /\ UNCHANGED <<callOutcome, callResult>>
                  ELSE /\ Settle(c, "resolved", cachedConfig)
                       /\ UNCHANGED callFetches
    /\ UNCHANGED <<localRaw, cachedConfig, cachedAt, clock, callResp>>

GetConfigStart(c) == GetConfigStartBody(c) /\ UNCHANGED <<calVars, anVars, lastCall, rt>>

\* part_004:185-188, from the response of the collaborator on
FetchReturn(c, resp) ==
    /\ callPc[c] = "fetching"
    /\ callResp' = [callResp EXCEPT ![c] = resp]
    /\ LET r == fetchConfigFromDB(resp)
       IN IF r.threw
          THEN /\ Settle(c, "rejected", NullConfig)
               /\ UNCHANGED <<cachedConfig, cachedAt>>
          ELSE /\ cachedConfig' = r.val
               /\ cachedAt' = callNow[c]
               /\ Settle(c, "resolved", r.val)
    /\ UNCHANGED <<localRaw, clock, callNow, callFetches, calVars, anVars, lastCall, rt>>

\* the caller has consumed the result; the next call may start
CallReturnBody(c) ==
    /\ callPc[c] = "done"
    /\ callPc' = [callPc EXCEPT ![c] = "idle"]
    /\ callNow' = [callNow EXCEPT ![c] = 0]
    /\ callResult' = [callResult EXCEPT ![c] = NullConfig]
    /\ callOutcome' = [callOutcome EXCEPT ![c] = "none"]
    /\ callFetches' = [callFetches EXCEPT ![c] = 0]
    /\ callResp' = [callResp EXCEPT ![c] = NoResp]
    /\ UNCHANGED <<localRaw, cachedConfig, cachedAt, clock>>

CallReturn(c) == CallReturnBody(c) /\ UNCHANGED <<calVars, anVars, lastCall, rt>>

\* time passes, 30 s at a time
Tick ==
    /\ clock < MaxTicks * 30000
    /\ clock' = clock + 30000
    /\ UNCHANGED <<localRaw, cachedConfig, cachedAt, callPc, callNow,
                   callResult, callOutcome, callFetches, callResp, calVars, anVars, lastCall, rt>>

\* the user (or another tab) rewrites localStorage["metricConfig"]
SetLocalOverride(S) ==
    /\ \E v \in S : localRaw' = v
    /\ localRaw' # localRaw
    /\ UNCHANGED <<cachedConfig, cachedAt, clock, callPc, callNow,
                   callResult, callOutcome, callFetches, callResp, calVars, anVars, lastCall, rt>>

CacheInit ==
    /\ cachedConfig = NullConfig
    /\ cachedAt = 0
    /\ clock = 0

(***************************************************************************)
(* The calibration store and the two components that write it.             *)
(***************************************************************************)
\* the sample rate of the recordings: 20 ms is one sample, 400 ms are twenty
SampleRate == 50

AbsentStore == Store("absent", <<>>)

CalInit(store) ==
    /\ calStore = store
    /\ created = NoProfile
    /\ wizStep = "idle"
    /\ wizNoise = I(0)
    /\ wizClosure = I(0)
    /\ testProfile = NoProfile
    /\ manualGain = I(1)
    /\ hasChanges = FALSE

wizVars == <<wizStep, wizNoise, wizClosure>>
testVars == <<testProfile, manualGain, hasChanges>>

\* the profile of a device in the store, <<>> when there is none
StoredProfile(st, deviceId) ==
    LET got == getCalibrationProfiles(st)
        idx == FindDevice(got.list, deviceId)
    IN IF idx = 0 THEN NoProfile ELSE <<got.list[idx]>>

HistoryOf(st, deviceId) ==
    IF StoredProfile(st, deviceId) = NoProfile THEN <<>>
    ELSE StoredProfile(st, deviceId)[1].recordingHistory

\* lufsNormalization.ts:137, called by itself
CreateProfile(referenceLevel, targetLevel) ==
    /\ created' = <<createCalibrationProfile("probe", I(0), referenceLevel, targetLevel, clock)>>
    /\ created' # created
    /\ UNCHANGED <<cfgVars, calStore, wizVars, testVars, anVars, lastCall, rt>>

\* lufsNormalization.ts:228, called by itself: a calibrated recording of a
\* device whose history holds fewer than cap entries
Calibrate(buf, deviceId, cap) ==
    /\ Len(HistoryOf(calStore, deviceId)) < cap
    /\ LET r == calibrateAndNormalize(buf, SampleRate, deviceId, TARGET_LUFS, calStore, clock)
       IN /\ ~r.threw
          /\ calStore' = r.store
    /\ calStore' # calStore
    /\ UNCHANGED <<cfgVars, created, wizVars, testVars, anVars, lastCall, rt>>

\* CalibrationWizard.tsx:31-32, the click on Start Calibration: startNoise and
\* the startReference it calls close over the noiseFloor of this render
WizardStartNoise ==
    /\ wizStep = "idle"
    /\ wizStep' = "noise"
    /\ wizClosure' = wizNoise
    /\ UNCHANGED <<cfgVars, calStore, created, wizNoise, testVars, anVars, lastCall, rt>>

\* CalibrationWizard.tsx:38-50, the noise recording has ended
WizardNoiseDone(buf) ==
    /\ wizStep = "noise"
    /\ wizNoise' = calculateNoiseFloor(buf, SampleRate)
    /\ wizStep' = "reference"
    /\ UNCHANGED <<cfgVars, calStore, created, wizClosure, testVars, anVars, lastCall, rt>>

\* CalibrationWizard.tsx:60-69, the reference recording has ended
WizardReferenceDone(buf) ==
    /\ wizStep = "reference"
    /\ LET reference == calculateLUFS(buf, SampleRate)
           profile == createCalibrationProfile("default", wizClosure, reference,
                                               I(100 * TARGET_LUFS), clock)
       IN /\ created' = <<profile>>
          /\ calStore' = saveCalibrationProfile(calStore, profile)
    /\ wizStep' = "complete"
    /\ UNCHANGED <<cfgVars, wizNoise, wizClosure, testVars, anVars, lastCall, rt>>

\* CalibrationWizard.tsx:122, Calibrate Again
WizardAgain ==
    /\ wizStep = "complete"
    /\ wizStep' = "idle"
    /\ UNCHANGED <<cfgVars, calStore, created, wizNoise, wizClosure, testVars, anVars, lastCall, rt>>

\* CalibrationWizard.tsx:88, the delete button of a listed profile
WizardDelete(deviceId) ==
    /\ StoredProfile(calStore, deviceId) # NoProfile
    /\ calStore' = deleteCalibrationProfile(calStore, deviceId).store
    /\ UNCHANGED <<cfgVars, created, wizVars, testVars, anVars, lastCall, rt>>

\* part_014:16-21, a render of CalibrationTest over the store st with the
\* state (gain, changes): the profile is read (and stamped), the effect
\* copies its gain unless there are unsaved changes
TestRenderAfter(st, gain, changes) ==
    LET got == getCalibrationProfile(st, "default", clock)
    IN /\ ~got.threw
       /\ testProfile' = got.profile
       /\ calStore' = got.store
       /\ hasChanges' = changes
       /\ manualGain' = IF got.profile # NoProfile /\ ~changes
                        THEN got.profile[1].gainAdjustment
                        ELSE gain

\* a render caused by the level meter or the parent
TestRender ==
    /\ TestRenderAfter(calStore, manualGain, hasChanges)
    /\ <<calStore, testVars>>' # <<calStore, testVars>>
    /\ UNCHANGED <<cfgVars, created, wizVars, anVars, lastCall, rt>>

\* part_014:69-76, the slider (min 0.5, max 2.0) is moved to v
TestSlide(v) ==
    /\ TestRenderAfter(calStore, v, TRUE)
    /\ <<calStore, testVars>>' # <<calStore, testVars>>
    /\ UNCHANGED <<cfgVars, created, wizVars, anVars, lastCall, rt>>

\* part_014:25-33, Save (shown while hasChanges)
TestSave ==
    /\ hasChanges
    /\ LET fresh == createCalibrationProfile("default", I(-4000), I(-2300),
                                             I(100 * TARGET_LUFS), clock)
           next == IF testProfile # NoProfile THEN testProfile[1] ELSE fresh
           saved == saveCalibrationProfile(calStore,
                                           [next EXCEPT !.gainAdjustment = manualGain])
       IN /\ created' = IF testProfile # NoProfile THEN created ELSE <<fresh>>
          /\ TestRenderAfter(saved, manualGain, FALSE)
    /\ UNCHANGED <<cfgVars, wizVars, anVars, lastCall, rt>>

\* part_014:85-88, Reset (shown while hasChanges)
TestReset ==
    /\ hasChanges
    /\ TestRenderAfter(calStore,
                       IF testProfile # NoProfile THEN testProfile[1].gainAdjustment ELSE I(1),
                       FALSE)
    /\ UNCHANGED <<cfgVars, created, wizVars, anVars, lastCall, rt>>

(***************************************************************************)
(* analyzeAudioAsync, part_004:535-644, as the steps around its awaits,    *)
(* and analyzeAudio, part_004:646-686.  The call of getConfigAsync is the  *)
(* call "a".                                                               *)
(***************************************************************************)
NoIn == <<>>
NoMid == <<>>
NoOut == [kind |-> "none"]
Rejected == [kind |-> "rejected"]

\* the arguments: api "async" | "sync"; vadMetrics <<>> or <<Vad>>; deviceId
\* "" = undefined; sttWordCount <<>> or <<n>>; speechRateMethod is
\* localStorage["speechRateMethod"] at the time of the call ("" = null)
Input(api, buf, vadMetrics, deviceId, hasBlob, sttWordCount, speechRateMethod) ==
    [api |-> api, audioBuffer |-> buf, vadMetrics |-> vadMetrics, deviceId |-> deviceId,
     hasBlob |-> hasBlob, sttWordCount |-> sttWordCount,
     speechRateMethod |-> speechRateMethod]

Mid(config, method, processed, volume, durationSeconds) ==
    [config |-> config, method |-> method, processed |-> processed,
     volume |-> volume, durationSeconds |-> durationSeconds]

\* no library function has been called directly
NoCall == [op |-> "none"]

AnInit ==
    /\ anPc = [c \in Callers |-> "idle"]
    /\ anIn = [c \in Callers |-> NoIn]
    /\ anMid = [c \in Callers |-> NoMid]
    /\ anOut = [c \in Callers |-> NoOut]
    /\ anReplies = [c \in Callers |-> <<>>]

\* part_004:604-643, from the result of the transcription branch on
Finish(in, mid, wordsPerMinute, usedMethod) ==
    Assemble(mid.volume,
             SpeechRateFrom(mid.processed, SampleRate, mid.config, mid.durationSeconds,
                            wordsPerMinute, usedMethod),
             analyzeAcceleration(mid.processed, SampleRate, mid.config),
             analyzeResponseTime(mid.processed, SampleRate, mid.config),
             analyzePauses(mid.processed, SampleRate, mid.config, in.vadMetrics),
             mid.config)

\* part_004:546, the call c and its getConfigAsync up to the first await
AnalyzeStart(c, in) ==
    /\ anPc[c] = "idle"
    /\ GetConfigStartBody(c)
    /\ anPc' = [anPc EXCEPT ![c] = "config"]
    /\ anIn' = [anIn EXCEPT ![c] = <<in>>]
    /\ UNCHANGED <<anMid, anOut, anReplies, calVars, lastCall, rt>>

\* part_004:587-588
CalibrationOffset(in, st, processed, got) ==
    IF got.threw
    THEN [threw |-> TRUE, processed |-> in.audioBuffer, deviceOffset |-> I(0), store |-> st]
    ELSE [threw |-> FALSE, processed |-> processed,
          deviceOffset |-> IF got.profile # NoProfile
                           THEN XSub(I(100 * TARGET_LUFS), ToNum(got.profile[1].referenceLevel))
                           ELSE I(0),
          store |-> got.store]

\* part_004:577-587
CalibrationRead(in, st, now, cal) ==
    IF cal.threw
    THEN [threw |-> TRUE, processed |-> in.audioBuffer, deviceOffset |-> I(0), store |-> st]
    ELSE CalibrationOffset(in, st, cal.normalized,
                           getCalibrationProfile(cal.store, in.deviceId, now))

\* part_004:574-589, the calibration of a recording with a deviceId: the
\* processed buffer, the offset of the volume and the store afterwards
Calibration(in, st, now) ==
    IF in.deviceId = ""
    THEN [threw |-> FALSE, processed |-> in.audioBuffer, deviceOffset |-> I(0), store |-> st]
    ELSE CalibrationRead(in, st, now,
                         calibrateAndNormalize(in.audioBuffer, SampleRate, in.deviceId,
                                               TARGET_LUFS, st, now))

\* part_004:546-611, from the configuration to the await of the transcription
\* or, when nothing is transcribed, to the result
AnalyzeResume(c) ==
    /\ anPc[c] = "config"
    /\ callPc[c] = "done"
    /\ CallReturnBody(c)
    /\ \E in \in {anIn[c][1]}, config \in {callResult[c]} :
       \E method \in {getSpeechRateMethod(config, in.speechRateMethod)},
          cal \in {Calibration(in, calStore, clock)} :
       \E mid \in {Mid(config, method, cal.processed,
                       analyzeVolume(in.audioBuffer, config, cal.deviceOffset),
                       DurationSeconds(cal.processed, SampleRate, in.vadMetrics))},
          stt \in {method = "deepgram-stt"
                     /\ (in.hasBlob \/ (in.sttWordCount # <<>> /\ in.sttWordCount[1] # 0))} :
          IF callOutcome[c] = "rejected"
          THEN /\ anPc' = [anPc EXCEPT ![c] = "done"]
               /\ anOut' = [anOut EXCEPT ![c] = Rejected]
               /\ UNCHANGED <<anMid, calStore>>
          ELSE IF ~HasSpeech(in.vadMetrics)
          THEN /\ anPc' = [anPc EXCEPT ![c] = "done"]
               /\ anOut' = [anOut EXCEPT ![c] = NoSpeechResult(method)]
               /\ UNCHANGED <<anMid, calStore>>
          ELSE IF cal.threw
          THEN /\ anPc' = [anPc EXCEPT ![c] = "done"]
               /\ anOut' = [anOut EXCEPT ![c] = Rejected]
               /\ UNCHANGED <<anMid, calStore>>
          ELSE /\ calStore' = cal.store
               /\ IF stt /\ in.hasBlob /\ in.sttWordCount = <<>>
                  THEN /\ anPc' = [anPc EXCEPT ![c] = "transcribeA"]
                       /\ anMid' = [anMid EXCEPT ![c] = <<mid>>]
                       /\ UNCHANGED anOut
                  ELSE /\ anPc' = [anPc EXCEPT ![c] = "done"]
                       /\ UNCHANGED anMid
                       /\ anOut' = [anOut EXCEPT ![c] = Finish(in, mid,
                             IF stt
                             THEN WordsPerMinute(Coalesce(in.sttWordCount, <<0>>)[1],
                                                 mid.durationSeconds)
                             ELSE I(0),
                             method)]
    /\ UNCHANGED <<anIn, anReplies, created, wizVars, testVars, lastCall, rt>>

\* a reply of a transcription function: ok = no error and data; words the
\* length of data.words (<<>> when it is no array); wordsPerMinute and
\* duration as Number() reads them
Reply(ok, words, wordsPerMinute, duration) ==
    [ok |-> ok, words |-> words, wordsPerMinute |-> wordsPerMinute, duration |-> duration]

\* the request rejects: the await of part_004:292 or 298 throws
Rejection == [ok |-> FALSE, threw |-> TRUE]

Threw(reply) == "threw" \in DOMAIN reply

\* part_004:292-296 and 298-304, the word count of a reply
WordCountA(reply) == Coalesce(reply.words, <<0>>)[1]

WordCountB(reply) ==
    IF reply.wordsPerMinute > 0 /\ reply.duration > 0
    THEN XRound(Q(reply.wordsPerMinute * reply.duration, 60)).n
    ELSE Coalesce(reply.words, <<0>>)[1]

\* part_004:337-338, the analysis ends with the word count of a reply
FinishCounted(c, wordCount) ==
    /\ anPc' = [anPc EXCEPT ![c] = "done"]
    /\ anOut' = [anOut EXCEPT ![c] =
                     Finish(anIn[c][1], anMid[c][1],
                            WordsPerMinute(wordCount, anMid[c][1].durationSeconds),
                            anMid[c][1].method)]
    /\ anMid' = [anMid EXCEPT ![c] = NoMid]

\* the catch leaves the method as it was selected
FinishCaught_KeepMethod(c) ==
    /\ anPc' = [anPc EXCEPT ![c] = "done"]
    /\ anOut' = [anOut EXCEPT ![c] = Finish(anIn[c][1], anMid[c][1], I(0), anMid[c][1].method)]
    /\ anMid' = [anMid EXCEPT ![c] = NoMid]

\* part_004:339-341, the catch: wordsPerMinute is still 0 and the method
\* becomes the spectral flux
FinishCaught(c) ==
    /\ anPc' = [anPc EXCEPT ![c] = "done"]
    /\ anOut' = [anOut EXCEPT ![c] = Finish(anIn[c][1], anMid[c][1], I(0), "spectral-flux")]
    /\ anMid' = [anMid EXCEPT ![c] = NoMid]

\* part_004:292-298, the reply of "transcribe": its word count, or the
\* request to "deepgram-transcribe"; a rejection goes to the catch
TranscribeAReturn(c, reply) ==
    /\ anPc[c] = "transcribeA"
    /\ anReplies' = [anReplies EXCEPT ![c] = Append(@, reply)]
    /\ IF Threw(reply) THEN FinishCaught(c)
       ELSE IF reply.ok THEN FinishCounted(c, WordCountA(reply))
       ELSE /\ anPc' = [anPc EXCEPT ![c] = "transcribeB"]
            /\ UNCHANGED <<anMid, anOut>>
    /\ UNCHANGED <<cfgVars, calVars, anIn, lastCall, rt>>

\* "deepgram-transcribe" is asked again after an error
TranscribeBReturn_Retry(c, reply) ==
    /\ anPc[c] = "transcribeB"
    /\ anReplies' = [anReplies EXCEPT ![c] = Append(@, reply)]
    /\ IF Threw(reply) THEN FinishCaught(c)
       ELSE IF reply.ok THEN FinishCounted(c, WordCountB(reply))
       ELSE UNCHANGED <<anPc, anMid, anOut>>
    /\ UNCHANGED <<cfgVars, calVars, anIn, lastCall, rt>>

\* part_004:298-306 and 339-341, the reply of "deepgram-transcribe"; without
\* one the error of line 306 is caught
TranscribeBReturn(c, reply) ==
    /\ anPc[c] = "transcribeB"
    /\ anReplies' = [anReplies EXCEPT ![c] = Append(@, reply)]
    /\ IF Threw(reply) THEN FinishCaught(c)
       ELSE IF reply.ok THEN FinishCounted(c, WordCountB(reply))
       ELSE FinishCaught(c)
    /\ UNCHANGED <<cfgVars, calVars, anIn, lastCall, rt>>

\* part_004:646-686, the synchronous analysis
AnalyzeSync(c, in) ==
    /\ anPc[c] = "idle"
    /\ anPc' = [anPc EXCEPT ![c] = "done"]
    /\ anIn' = [anIn EXCEPT ![c] = <<in>>]
    /\ anOut' = [anOut EXCEPT ![c] = analyzeAudio(in.audioBuffer, SampleRate, localRaw)]
    /\ UNCHANGED <<cfgVars, calVars, anMid, anReplies, lastCall, rt>>

(***************************************************************************)
(* part_003: the deadline reward.  A Date is its milliseconds in local     *)
(* time from the first day the model looks at; a day has Day milliseconds. *)
(***************************************************************************)
Day == 1000 * 60 * 60 * 24
Hour == 1000 * 60 * 60

\* part_003:29-38
DeadlineDefaults ==
    [deadline_early_bonus_max |-> 50, deadline_early_bonus_days |-> 3,
     deadline_on_time_bonus |-> 20, deadline_penalty_max |-> 100,
     deadline_penalty_grace_days |-> 0, deadline_penalty_scale_days |-> 7,
     min_completion_for_bonus |-> 80, penalty_completion_threshold |-> 50]

\* date.setHours(0, 0, 0, 0) and date.setHours(23, 59, 59, 999)
StartOfDay(t) == (t \div Day) * Day
EndOfDay(t) == StartOfDay(t) + Day - 1

\* date-fns differenceInDays(dateLeft, dateRight): the full days between
\* the two, a part of a day dropped toward zero
differenceInDays(dateLeft, dateRight) ==
    IF dateLeft >= dateRight THEN (dateLeft - dateRight) \div Day
    ELSE 0 - ((dateRight - dateLeft) \div Day)

Reward(type, amount, daysEarlyOrLate, message) ==
    [type |-> type, amount |-> amount, daysEarlyOrLate |-> daysEarlyOrLate,
     message |-> message]

\* part_003:63-91
RewardEarly(daysDiff, completionPercent, cfg) ==
    IF completionPercent >= cfg.min_completion_for_bonus
    THEN Reward("bonus",
                XRound(XMul(Q(Min2(daysDiff, cfg.deadline_early_bonus_days),
                              cfg.deadline_early_bonus_days),
                            I(cfg.deadline_early_bonus_max))),
                daysDiff, "early")
    ELSE Reward("none", I(0), daysDiff, "need-completion")

\* part_003:94-114
RewardOnTime(completionPercent, cfg) ==
    IF completionPercent >= cfg.min_completion_for_bonus
    THEN Reward("bonus", I(cfg.deadline_on_time_bonus), 0, "on-time")
    ELSE Reward("none", I(0), 0, "keep-practicing")

\* part_003:120-140
RewardGrace(daysDiff, completionPercent, cfg) ==
    IF completionPercent >= cfg.min_completion_for_bonus
    THEN Reward("bonus", XRound(XMul(I(cfg.deadline_on_time_bonus), Q(5, 10))),
                daysDiff, "grace")
    ELSE Reward("none", I(0), daysDiff, "late")

\* part_003:148-159
completionPenaltyFactor(completionPercent, cfg) ==
    IF completionPercent >= cfg.min_completion_for_bonus THEN Q(3, 10)
    ELSE IF completionPercent >= cfg.penalty_completion_threshold THEN Q(6, 10)
    ELSE I(1)

\* part_003:146 and 161-172
RewardPenalty(daysDiff, daysLate, completionPercent, cfg) ==
    Reward("penalty",
           XRound(XMul(XMul(I(cfg.deadline_penalty_max),
                            XMin(Q(daysLate, cfg.deadline_penalty_scale_days), I(1))),
                       completionPenaltyFactor(completionPercent, cfg))),
           daysDiff, "overdue")

\* part_003:62-172 for the daysDiff of line 60
RewardFor(daysDiff, completionPercent, cfg) ==
    IF daysDiff > 0 THEN RewardEarly(daysDiff, completionPercent, cfg)
    ELSE IF daysDiff = 0 THEN RewardOnTime(completionPercent, cfg)
    ELSE IF Abs(daysDiff) <= cfg.deadline_penalty_grace_days
    THEN RewardGrace(daysDiff, completionPercent, cfg)
    ELSE RewardPenalty(daysDiff, Abs(daysDiff), completionPercent, cfg)

\* part_003:48-172; deadline is deadline.deadline, now the time of new Date()
calculateDeadlineReward(deadline, completionPercent, cfg, now) ==
    RewardFor(differenceInDays(EndOfDay(deadline), StartOfDay(now)),
              completionPercent, cfg)

(***************************************************************************)
(* The recalibration suggestion.  Math.sqrt has no rational value, so a    *)
(* standard deviation is kept by its square, and compared by it.           *)
(***************************************************************************)
RECURSIVE XSum(_)
\* values.reduce((a, b) => a + b, 0) over numbers read back from JSON
XSum(values) ==
    IF values = <<>> THEN I(0) ELSE XAdd(ToNum(Head(values)), XSum(Tail(values)))

\* values.map((v) => Math.pow(v - mean, 2))
SquaredDeviations(values, mean) ==
    [i \in 1..Len(values) |-> XMul(XSub(ToNum(values[i]), mean),
                                    XSub(ToNum(values[i]), mean))]

\* lufsNormalization.ts:172-177; squared is the square of the returned number
calcStd(values) ==
    IF Len(values) < 3 THEN [squared |-> I(0)]
    ELSE [squared |-> XDiv(XSum(SquaredDeviations(values,
                                    XDiv(XSum(values), I(Len(values))))),
                           I(Len(values)))]

\* std > limit with the limit itself triggering
StdAbove_Inclusive(std, limit) == XGe(std.squared, XMul(limit, limit))

\* lufsNormalization.ts:186 and 195, std > limit for a limit that is not negative
StdAbove(std, limit) == XGt(std.squared, XMul(limit, limit))

\* Math.floor
XFloor(x) == IF IsFin(x) THEN I(x.n \div x.d) ELSE x

\* lufsNormalization.ts:203; the quotient is taken term by term, which is the
\* same number and keeps a month of milliseconds within the integers
DaysSince(now, createdAt) ==
    XSub(Q(now, Day), Q(createdAt, Day))

NoSuggestion == [shouldRecalibrate |-> FALSE, reason |-> "none"]

\* lufsNormalization.ts:203-206
SuggestByAge(profile, now) ==
    IF XGt(DaysSince(now, profile.createdAt), I(30))
    THEN [shouldRecalibrate |-> TRUE, reason |-> "age",
          days |-> XFloor(DaysSince(now, profile.createdAt))]
    ELSE NoSuggestion

\* lufsNormalization.ts:193-201; levels in hundredths of a dB
SuggestByNoise(profile, now, noiseVar) ==
    IF StdAbove(noiseVar, I(100 * 10))
    THEN [shouldRecalibrate |-> TRUE, reason |-> "noise",
          variance |-> noiseVar, threshold |-> I(100 * 10)]
    ELSE SuggestByAge(profile, now)

\* the same with the age of the profile tested before its noise
SuggestByLevels_AgeFirst(profile, now, lufsVar) ==
    IF StdAbove(lufsVar, I(100 * VARIANCE_THRESHOLD))
    THEN [shouldRecalibrate |-> TRUE, reason |-> "levels",
          variance |-> lufsVar, threshold |-> I(100 * VARIANCE_THRESHOLD)]
    ELSE IF SuggestByAge(profile, now).shouldRecalibrate
    THEN SuggestByAge(profile, now)
    ELSE SuggestByNoise(profile, now,
             calcStd([i \in 1..Len(profile.recordingHistory) |->
                         profile.recordingHistory[i].noiseFloor]))

\* lufsNormalization.ts:184-193
SuggestByLevels(profile, now, lufsVar) ==
    IF StdAbove(lufsVar, I(100 * VARIANCE_THRESHOLD))
    THEN [shouldRecalibrate |-> TRUE, reason |-> "levels",
          variance |-> lufsVar, threshold |-> I(100 * VARIANCE_THRESHOLD)]
    ELSE SuggestByNoise(profile, now,
             calcStd([i \in 1..Len(profile.recordingHistory) |->
                         profile.recordingHistory[i].noiseFloor]))

\* lufsNormalization.ts:180-184, for what getCalibrationProfile returned
SuggestFor(got, now) ==
    IF got.threw THEN NoSuggestion
    ELSE IF got.profile = NoProfile THEN NoSuggestion
    ELSE IF Len(got.profile[1].recordingHistory) < 3 THEN NoSuggestion
    ELSE SuggestByLevels(got.profile[1], now,
             calcStd([i \in 1..Len(got.profile[1].recordingHistory) |->
                         got.profile[1].recordingHistory[i].originalLUFS]))

\* lufsNormalization.ts:179-212; store is the store the call leaves
RecalibrationOf(got, now) ==
    [threw |-> got.threw, suggestion |-> SuggestFor(got, now), store |-> got.store]

checkRecalibrationNeeded(st, deviceId, now) ==
    RecalibrationOf(getCalibrationProfile(st, deviceId, now), now)

\* lufsNormalization.ts:220, suggestion.variance && suggestion.threshold ?
\* variance / threshold : 1.5, compared with 2 by the squares
SeverityAboveTwo(suggestion) ==
    IF suggestion.reason \in {"levels", "noise"} /\ suggestion.variance.squared # I(0)
    THEN XGt(suggestion.variance.squared,
             XMul(I(4), XMul(suggestion.threshold, suggestion.threshold)))
    ELSE FALSE

\* lufsNormalization.ts:216-225
StatusOf(suggestion) ==
    IF ~suggestion.shouldRecalibrate THEN [status |-> "good", message |-> "none"]
    ELSE IF SeverityAboveTwo(suggestion)
    THEN [status |-> "recommend", message |-> suggestion.reason]
    ELSE [status |-> "warning", message |-> suggestion.reason]

\* lufsNormalization.ts:214-226; store is the store the call leaves
getRecalibrationStatus(st, deviceId, now) ==
    [threw |-> checkRecalibrationNeeded(st, deviceId, now).threw,
     status |-> StatusOf(checkRecalibrationNeeded(st, deviceId, now).suggestion),
     store |-> checkRecalibrationNeeded(st, deviceId, now).store]

(***************************************************************************)
(* useRealtimeAudio, part_015:10-125: one mounted hook.  A stream, an      *)
(* audio context and a requested animation frame are numbers from 1 and 0  *)
(* is null; the browser keeps the streams whose tracks are live, the       *)
(* contexts that are not closed and the frames requested and neither run   *)
(* nor cancelled.  The level meter of lines 31-36 is not part of the state.*)
(***************************************************************************)
\* part_015:75  analyzer.fftSize: 2048 of the 19200 samples of 400 ms at
\* 48 kHz, here 2 of the 20 samples of 400 ms
FftSize == 2

\* part_015:39  Math.floor(sampleRate * 0.4)
RequiredSamples == (SampleRate * 2) \div 5

\* part_015:50-51  the LUFS is computed every sixth frame
FramesPerLufs == 6

\* the hook after its first effect with enabled = false (lines 117-121)
RtInit ==
    [enabled |-> FALSE, mounted |-> TRUE, toggles |-> 0, pending |-> 0, error |-> FALSE,
     streamRef |-> 0, audioContextRef |-> 0, analyzerRef |-> FALSE, animationFrameRef |-> 0,
     buffer |-> <<>>, bufferIndex |-> 0, lastLufs |-> <<>>, frameCount |-> 0,
     lufs |-> <<>>, level |-> 0, streams |-> {}, contexts |-> {}, frames |-> {}]

\* the number the browser gives the next stream, context or frame
NewId(S) == CHOOSE n \in 1..(Cardinality(S) + 1) : n \notin S /\ \A m \in 1..(n - 1) : m \in S

\* part_015:45-48  the samples of a frame written into the ring
RingWrite(buffer, index, data) ==
    [i \in 1..Len(buffer) |->
        IF \E k \in 1..Len(data) : ((index + k - 1) % Len(buffer)) + 1 = i
        THEN data[CHOOSE k \in 1..Len(data) : ((index + k - 1) % Len(buffer)) + 1 = i]
        ELSE buffer[i]]

\* part_015:38-48  the ring after a frame: a ring of another length is
\* replaced by an empty one of the required length first
RingAfter(r, data) ==
    IF Len(r.buffer) # RequiredSamples
    THEN [buffer |-> RingWrite([i \in 1..RequiredSamples |-> 0], 0, data),
          index |-> Len(data) % RequiredSamples]
    ELSE [buffer |-> RingWrite(r.buffer, r.bufferIndex, data),
          index |-> (r.bufferIndex + Len(data)) % RequiredSamples]

\* part_015:50-59  lastLufsRef after the frame that fills the count
LastLufsAfter(r, buffer) ==
    IF r.frameCount + 1 >= FramesPerLufs /\ IsFin(calculateLUFS(buffer, SampleRate))
    THEN <<calculateLUFS(buffer, SampleRate)>>
    ELSE r.lastLufs

\* part_015:50-61  from the count of the frame to the request of the next
MetricsAfter(r, ring, last) ==
    [r EXCEPT !.buffer = ring.buffer, !.bufferIndex = ring.index,
              !.frameCount = IF @ + 1 >= FramesPerLufs THEN 0 ELSE @ + 1,
              !.lastLufs = last, !.lufs = last,
              !.frames = @ \cup {NewId(r.frames)},
              !.animationFrameRef = NewId(r.frames)]

\* part_015:25-62  updateMetrics; data is what getFloatTimeDomainData reads
updateMetrics(r, data) ==
    IF ~r.analyzerRef THEN r
    ELSE MetricsAfter(r, RingAfter(r, data), LastLufsAfter(r, RingAfter(r, data).buffer))

\* part_015:91-112  stopMonitoring
stopMonitoring(r) ==
    [r EXCEPT !.frames = @ \ {r.animationFrameRef}, !.animationFrameRef = 0,
              !.contexts = @ \ {r.audioContextRef}, !.audioContextRef = 0,
              !.streams = @ \ {r.streamRef}, !.streamRef = 0,
              !.analyzerRef = FALSE, !.buffer = <<>>, !.bufferIndex = 0,
              !.lastLufs = <<>>, !.frameCount = 0, !.lufs = <<>>]

\* part_015:66-68  startMonitoring up to its await: getUserMedia is pending
startMonitoring(r) == [r EXCEPT !.pending = @ + 1]

\* part_015:69-82  startMonitoring from the stream on; level is the
\* amplitude of the microphone signal
MonitoringStarted(r, level) ==
    updateMetrics([r EXCEPT !.pending = @ - 1, !.error = FALSE, !.level = level,
                            !.streams = @ \cup {NewId(r.streams)},
                            !.streamRef = NewId(r.streams),
                            !.contexts = @ \cup {NewId(r.contexts)},
                            !.audioContextRef = NewId(r.contexts),
                            !.analyzerRef = TRUE],
                  <<level, -level>>)

otherVars == <<cfgVars, calVars, anVars, lastCall>>

\* part_015:114-118  the prop changes: the cleanup of the last effect, then
\* the effect
RtSetEnabled(enabled) ==
    /\ rt.mounted
    /\ rt.enabled # enabled
    /\ rt.toggles < MaxToggles
    /\ rt' = [(IF enabled THEN startMonitoring(stopMonitoring(rt))
                          ELSE stopMonitoring(stopMonitoring(rt)))
                 EXCEPT !.enabled = enabled, !.toggles = @ + 1]
    /\ UNCHANGED otherVars

\* part_015:117  the component unmounts: the cleanup of the effect
RtUnmount ==
    /\ rt.mounted
    /\ rt' = [stopMonitoring(rt) EXCEPT !.mounted = FALSE]
    /\ UNCHANGED otherVars

\* part_015:66-82  getUserMedia resolves
RtGranted(level) ==
    /\ rt.pending > 0
    /\ rt' = MonitoringStarted(rt, level)
    /\ UNCHANGED otherVars

\* part_015:83-85  getUserMedia rejects
RtDenied ==
    /\ rt.pending > 0
    /\ rt' = [rt EXCEPT !.pending = @ - 1, !.error = TRUE]
    /\ UNCHANGED otherVars

\* part_015:61  the browser runs a requested frame
RtAnimationFrame(id) ==
    /\ id \in rt.frames
    /\ rt' = updateMetrics([rt EXCEPT !.frames = @ \ {id}], <<rt.level, -rt.level>>)
    /\ UNCHANGED otherVars

(***************************************************************************)
(* Direct calls of the library functions: lastCall keeps the arguments and *)
(* what the call returned.                                                 *)
(***************************************************************************)
libVars == <<cfgVars, calVars, anVars, rt>>

\* lufsNormalization.ts:110, calculateLUFS(audioBuffer, sampleRate)
CallCalculateLUFS(buf) ==
    /\ lastCall' = [op |-> "calculateLUFS", audioBuffer |-> buf,
                    result |-> calculateLUFS(buf, SampleRate)]
    /\ UNCHANGED libVars

\* lufsNormalization.ts:117, normalizeToLUFS(audioBuffer, sampleRate, targetLUFS)
CallNormalizeToLUFS(buf, targetLUFS) ==
    /\ lastCall' = [op |-> "normalizeToLUFS", audioBuffer |-> buf,
                    targetLUFS |-> targetLUFS,
                    result |-> normalizeToLUFS(buf, SampleRate, targetLUFS)]
    /\ UNCHANGED libVars

\* lufsNormalization.ts:179, checkRecalibrationNeeded(deviceId) at the time clock
CallCheckRecalibration(deviceId) ==
    /\ lastCall' = [op |-> "checkRecalibrationNeeded", deviceId |-> deviceId,
                    now |-> clock, before |-> calStore,
                    threw |-> checkRecalibrationNeeded(calStore, deviceId, clock).threw,
                    result |-> checkRecalibrationNeeded(calStore, deviceId, clock).suggestion]
    /\ calStore' = checkRecalibrationNeeded(calStore, deviceId, clock).store
    /\ UNCHANGED <<cfgVars, created, wizVars, testVars, anVars, rt>>

\* lufsNormalization.ts:49, getCalibrationProfiles()
CallGetCalibrationProfiles ==
    /\ lastCall' = [op |-> "getCalibrationProfiles", deviceId |-> "", now |-> clock,
                    before |-> calStore, threw |-> FALSE,
                    result |-> getCalibrationProfiles(calStore)]
    /\ UNCHANGED libVars

\* lufsNormalization.ts:58, getCalibrationProfile(deviceId)
CallGetCalibrationProfile(deviceId) ==
    /\ lastCall' = [op |-> "getCalibrationProfile", deviceId |-> deviceId, now |-> clock,
                    before |-> calStore,
                    threw |-> getCalibrationProfile(calStore, deviceId, clock).threw,
                    result |-> getCalibrationProfile(calStore, deviceId, clock).profile]
    /\ calStore' = getCalibrationProfile(calStore, deviceId, clock).store
    /\ UNCHANGED <<cfgVars, created, wizVars, testVars, anVars, rt>>

\* lufsNormalization.ts:37, saveCalibrationProfile(profile); its try block
\* keeps every exception in
CallSaveCalibrationProfile(profile) ==
    /\ lastCall' = [op |-> "saveCalibrationProfile", deviceId |-> profile.deviceId,
                    now |-> clock, before |-> calStore, threw |-> FALSE,
                    result |-> profile]
    /\ calStore' = saveCalibrationProfile(calStore, profile)
    /\ UNCHANGED <<cfgVars, created, wizVars, testVars, anVars, rt>>

\* lufsNormalization.ts:67, deleteCalibrationProfile(deviceId)
CallDeleteCalibrationProfile(deviceId) ==
    /\ lastCall' = [op |-> "deleteCalibrationProfile", deviceId |-> deviceId,
                    now |-> clock, before |-> calStore,
                    threw |-> deleteCalibrationProfile(calStore, deviceId).threw,
                    result |-> deviceId]
    /\ calStore' = deleteCalibrationProfile(calStore, deviceId).store
    /\ UNCHANGED <<cfgVars, created, wizVars, testVars, anVars, rt>>

\* lufsNormalization.ts:228, calibrateAndNormalize(audioBuffer, sampleRate,
\* deviceId); deviceId "" is the call without a device id
CallCalibrateAndNormalize(buf, deviceId) ==
    /\ lastCall' = [op |-> "calibrateAndNormalize", deviceId |-> deviceId,
                    now |-> clock, before |-> calStore,
                    threw |-> calibrateAndNormalize(buf, SampleRate, deviceId,
                                  TARGET_LUFS, calStore, clock).threw,
                    result |-> calibrateAndNormalize(buf, SampleRate, deviceId,
                                  TARGET_LUFS, calStore, clock).originalLUFS]
    /\ calStore' = calibrateAndNormalize(buf, SampleRate, deviceId,
                                         TARGET_LUFS, calStore, clock).store
    /\ UNCHANGED <<cfgVars, created, wizVars, testVars, anVars, rt>>

\* part_004:203, analyzeVolume(audioBuffer, config, deviceDbOffset)
CallAnalyzeVolume(buf, config, deviceDbOffset) ==
    /\ lastCall' = [op |-> "analyzeVolume", audioBuffer |-> buf,
                    thresholds |-> ThresholdsOf(config, "volume", Thresholds(-3500, -1500, 0)),
                    db |-> XAdd(calculateSegmentDb(buf), deviceDbOffset),
                    result |-> analyzeVolume(buf, config, deviceDbOffset)]
    /\ UNCHANGED libVars

\* part_003:48, calculateDeadlineReward(deadline, completionPercent, config)
\* at the time clock
CallCalculateDeadlineReward(deadline, completionPercent, cfg) ==
    /\ lastCall' = [op |-> "calculateDeadlineReward", deadline |-> deadline,
                    completionPercent |-> completionPercent, config |-> cfg,
                    now |-> clock,
                    result |-> calculateDeadlineReward(deadline, completionPercent,
                                                       cfg, clock)]
    /\ UNCHANGED libVars

\* lufsNormalization.ts:214, getRecalibrationStatus(deviceId)
CallGetRecalibrationStatus(deviceId) ==
    /\ lastCall' = [op |-> "getRecalibrationStatus", deviceId |-> deviceId,
                    now |-> clock, before |-> calStore,
                    threw |-> getRecalibrationStatus(calStore, deviceId, clock).threw,
                    result |-> getRecalibrationStatus(calStore, deviceId, clock).status]
    /\ calStore' = getRecalibrationStatus(calStore, deviceId, clock).store
    /\ UNCHANGED <<cfgVars, created, wizVars, testVars, anVars, rt>>

\* lufsNormalization.ts:159, trackRecording(deviceId, stats)
CallTrackRecording(deviceId, stats) ==
    /\ lastCall' = [op |-> "trackRecording", deviceId |-> deviceId,
                    now |-> clock, before |-> calStore,
                    threw |-> trackRecording(calStore, deviceId, stats, clock).threw,
                    result |-> stats]
    /\ calStore' = trackRecording(calStore, deviceId, stats, clock).store
    /\ UNCHANGED <<cfgVars, created, wizVars, testVars, anVars, rt>>

(***************************************************************************)
(* SpecCache: overlapping getConfigAsync calls against the 60 s cache.     *)
(***************************************************************************)
InitCache ==
    /\ localRaw = Raw("absent", <<>>)
    /\ CacheInit
    /\ CallInit
    /\ CalInit(AbsentStore)
    /\ AnInit
    /\ lastCall = NoCall
    /\ rt = RtInit

StartCall == \E c \in Callers : GetConfigStart(c)
FinishFetch == \E c \in Callers : \E resp \in RemoteResponses : FetchReturn(c, resp)
ReturnCall == \E c \in Callers : CallReturn(c)
EditOverride == SetLocalOverride(FewOverrides)

NextCache == StartCall \/ FinishFetch \/ ReturnCall \/ Tick \/ EditOverride

SpecCache == InitCache /\ [][NextCache]_vars

(***************************************************************************)
(* SpecResolve: one resolution per stored override, the override drawn     *)
(* from LocalOverrides and fixed for the run.                              *)
(***************************************************************************)
InitResolve ==
    /\ localRaw \in LocalOverrides
    /\ CacheInit
    /\ CallInit
    /\ CalInit(AbsentStore)
    /\ AnInit
    /\ lastCall = NoCall
    /\ rt = RtInit

ResolveStart == GetConfigStart("a")
ResolveFetch == \E resp \in RemoteResponses : FetchReturn("a", resp)
ResolveReturn == CallReturn("a")

NextResolve == ResolveStart \/ ResolveFetch \/ ResolveReturn \/ Tick

SpecResolve == InitResolve /\ [][NextResolve]_vars

(***************************************************************************)
(* SpecRing: calibrated recordings of the device "default", one after the  *)
(* other; a recording of n samples ends n / SampleRate seconds after the   *)
(* one before it.                                                          *)
(***************************************************************************)
\* n samples of the amplitude a
Steady(n, a) == [i \in 1..n |-> a]

\* one sample of the amplitude a followed by silence
Click(n, a) == [i \in 1..n |-> IF i = 1 THEN a ELSE 0]

RingBuffers == {Steady(25, 18), Steady(25, 100)}

\* the profile the wizard stores for a reference recording Steady(25, 18)
RingProfile ==
    JsonProfile(createCalibrationProfile("default", I(0),
                    calculateLUFS(Steady(25, 18), SampleRate), I(100 * TARGET_LUFS), 0))

InitRing ==
    /\ localRaw = Raw("absent", <<>>)
    /\ CacheInit
    /\ CallInit
    /\ CalInit(Store("array", <<RingProfile>>))
    /\ AnInit
    /\ lastCall = NoCall
    /\ rt = RtInit

\* the recording of buf ends and is calibrated
RingRecord ==
    \E buf \in RingBuffers :
        LET now == clock + (Len(buf) * 1000) \div SampleRate
            r == calibrateAndNormalize(buf, SampleRate, "default", TARGET_LUFS, calStore, now)
        IN /\ clock < MaxRecordings * 500
           /\ clock' = now
           /\ ~r.threw
           /\ calStore' = r.store
           /\ UNCHANGED <<localRaw, cachedConfig, cachedAt, callPc, callNow, callResult,
                          callOutcome, callFetches, callResp, created, wizVars,
                          testVars, anVars, lastCall, rt>>

NextRing == RingRecord

SpecRing == InitRing /\ [][NextRing]_vars

(***************************************************************************)
(* SpecGain: the wizard, the gain test and calibrated recordings of the    *)
(* device "default" in any order, and createCalibrationProfile by itself.  *)
(***************************************************************************)
NoiseBuffers == {Steady(25, 100)}

ReferenceBuffers == {Steady(25, 0), Click(25, 1), Steady(25, 18), Steady(25, 100)}

SliderValues == {Q(1, 2), Q(137, 100), I(2)}

\* reference and target levels, centi-LUFS
ReferenceLevels == {NInf, I(-20000), I(-4300), I(-2300), I(-300), I(6000)}
TargetLevels == {I(-7000), I(-2300), I(0)}

InitGain ==
    /\ localRaw = Raw("absent", <<>>)
    /\ CacheInit
    /\ CallInit
    /\ CalInit(AbsentStore)
    /\ AnInit
    /\ lastCall = NoCall
    /\ rt = RtInit

GainCreate == \E r \in ReferenceLevels : \E t \in TargetLevels : CreateProfile(r, t)
GainCalibrate == Calibrate(Steady(3, 0), "default", MaxTracked)
GainNoise == \E buf \in NoiseBuffers : WizardNoiseDone(buf)
GainReference == \E buf \in ReferenceBuffers : WizardReferenceDone(buf)
GainSlide == \E v \in SliderValues : TestSlide(v)
GainDelete == WizardDelete("default")

NextGain ==
    \/ GainCreate \/ GainCalibrate
    \/ WizardStartNoise \/ GainNoise \/ GainReference \/ WizardAgain \/ GainDelete
    \/ TestRender \/ GainSlide \/ TestSave \/ TestReset

SpecGain == InitGain /\ [][NextGain]_vars

(***************************************************************************)
(* SpecAnalyze: one analysis per environment; the override, the store and  *)
(* the arguments are drawn from the sets below, the replies of the remote  *)
(* configuration and of the transcription functions as they arrive.        *)
(***************************************************************************)
Amplitudes == {0, 18, 100}

\* every buffer of up to MaxBufLen samples, the empty one included
ShortBuffers == SeqsUpTo(Amplitudes, MaxBufLen)

LongBuffers ==
    { Steady(50, 0),                                      \* one second of silence
      Steady(25, 18),                                     \* steady speech level
      Steady(10, 0) \o Steady(15, 100),                   \* late, loud start
      Steady(5, 18) \o Steady(10, 0) \o Steady(10, 18),   \* a 200 ms pause
      <<0, 18, 0, 0, 0, 0, 100, 0, 0, 0, 0, 0, 100, 0>> } \* three onsets

Buffers == ShortBuffers \cup LongBuffers

VadOptions ==
    { NoVad,
      <<Vad(0, 0, <<>>)>>,
      <<Vad(10, 150, <<Seg(0, 150)>>)>>,
      <<Vad(10, 300, <<Seg(0, 300)>>)>>,
      <<Vad(500, 150, <<Seg(100, 250)>>)>>,
      <<Vad(20, 200, <<Seg(0, 200)>>)>>,
      <<Vad(21, 200, <<Seg(0, 200)>>)>>,
      <<Vad(20, 201, <<Seg(0, 201)>>)>>,
      <<Vad(21, 201, <<Seg(200, 401), Seg(0, 20)>>)>>,
      <<Vad(500, 250, <<>>)>> }

\* the two-metric override: volume 40 and pauseManagement 10
TwoMetricOverride ==
    Raw("array", << Obj("volume", TRUE, <<4000>>, None, None, None),
                    Obj("pauseManagement", TRUE, <<1000>>, None, None, None) >>)

AnalyzeOverrides ==
    { Raw("absent", <<>>), TwoMetricOverride,
      Raw("array", <<Obj("volume", TRUE, <<50>>, None, None, None)>>) }

\* the profile the wizard stores for a silent reference recording
SilentProfile ==
    JsonProfile(createCalibrationProfile("default", I(0),
                    calculateLUFS(Steady(25, 0), SampleRate), I(100 * TARGET_LUFS), 0))

AnalyzeStores ==
    { AbsentStore, Store("nonarray", <<>>),
      Store("array", <<RingProfile>>), Store("array", <<SilentProfile>>) }

AsyncInputs ==
    {Input("async", buf, vad, "", FALSE, <<>>, "") : buf \in Buffers, vad \in VadOptions}
      \cup {Input("async", buf, vad, "default", FALSE, <<>>, "") :
              buf \in {<<>>, Steady(3, 0), Steady(25, 18)},
              vad \in {NoVad, <<Vad(500, 250, <<>>)>>}}
      \cup {Input("async", buf, NoVad, "", blob, stt, method) :
              buf \in {Steady(25, 18), <<0, 18, 0, 0, 0, 0, 100, 0, 0, 0, 0, 0, 100, 0>>},
              blob \in BOOLEAN, stt \in {<<>>, <<0>>, <<3>>},
              method \in {"deepgram-stt", "energy-peaks"}}

SyncInputs == {Input("sync", buf, NoVad, "", FALSE, <<>>, "") : buf \in Buffers}

TranscribeReplies ==
    { Reply(TRUE, <<3>>, 0, 0), Reply(TRUE, <<>>, 120, 2), Reply(TRUE, <<>>, 0, 0),
      Reply(FALSE, <<>>, 0, 0), Rejection }

InitAnalyze ==
    /\ localRaw \in AnalyzeOverrides
    /\ CacheInit
    /\ CallInit
    /\ \E st \in AnalyzeStores : CalInit(st)
    /\ AnInit
    /\ lastCall = NoCall
    /\ rt = RtInit

AnalyzeCall == \E in \in AsyncInputs : AnalyzeStart("a", in)
AnalyzeFetch == \E resp \in RemoteResponses : FetchReturn("a", resp)
AnalyzeContinue == AnalyzeResume("a")
AnalyzeTranscribeA == \E reply \in TranscribeReplies : TranscribeAReturn("a", reply)
AnalyzeTranscribeB == \E reply \in TranscribeReplies : TranscribeBReturn("a", reply)
AnalyzeSyncCall == \E in \in SyncInputs : AnalyzeSync("a", in)

NextAnalyze ==
    \/ AnalyzeCall \/ AnalyzeFetch \/ AnalyzeContinue
    \/ AnalyzeTranscribeA \/ AnalyzeTranscribeB \/ AnalyzeSyncCall

SpecAnalyze == InitAnalyze /\ [][NextAnalyze]_vars

(***************************************************************************)
(* SpecLufs: calculateLUFS and normalizeToLUFS called on buffers of finite *)
(* samples, samples beyond full scale included.                            *)
(***************************************************************************)
LufsAmplitudes == {-150, 0, 18, 100, 150}

LufsBuffers ==
    SeqsUpTo(LufsAmplitudes, MaxBufLen)
      \cup { Steady(20, 100),                   \* one block long: the loop measures none
             Steady(21, 0), Steady(25, 0),      \* blocks, none above the absolute gate
             Steady(21, 100), Steady(25, 18), Steady(25, 150), Steady(25, -150),
             Click(25, 1), Click(30, 150),
             Steady(25, 0) \o Steady(25, 100),  \* the relative gate drops the silence
             Steady(20, 18) \o <<150, -150, 100>> }

LufsTargets == {-23, -14, 0}

InitLufs ==
    /\ localRaw = Raw("absent", <<>>)
    /\ CacheInit
    /\ CallInit
    /\ CalInit(AbsentStore)
    /\ AnInit
    /\ lastCall = NoCall
    /\ rt = RtInit

\* the functions are pure: one call per behaviour shows all they do
LufsMeasure == lastCall = NoCall /\ \E buf \in LufsBuffers : CallCalculateLUFS(buf)
LufsNormalize ==
    lastCall = NoCall /\ \E buf \in LufsBuffers : \E t \in LufsTargets : CallNormalizeToLUFS(buf, t)

NextLufs == LufsMeasure \/ LufsNormalize

SpecLufs == InitLufs /\ [][NextLufs]_vars

(***************************************************************************)
(* SpecRecal: getCalibrationProfile, checkRecalibrationNeeded or           *)
(* getRecalibrationStatus called once on a store that holds the profile of *)
(* the device "default" with a recording history, and a second profile.    *)
(* Times                                                                   *)
(* are milliseconds from an origin in the middle of the month the model    *)
(* looks at, so that the profile may be 31 days old.                       *)
(***************************************************************************)
\* the time of the call
RecalNow == 15 * Day

\* createdAt: just now, 30 days, 30 days and an hour, 31 days and an hour ago
RecalCreated == {15 * Day, -15 * Day, -15 * Day - Hour, -16 * Day - Hour}

\* originalLUFS of a history entry, hundredths of a LUFS; null is what
\* JSON keeps of the -Infinity of a silent recording
RecalLevels == {I(-2800), I(-1800), I(-1799), JNull}

\* noiseFloor of the i-th history entry, hundredths of a dB
RecalNoise == {"steady", "changed"}
NoiseAt(kind, i) == IF kind = "changed" /\ i % 2 = 0 THEN I(-3000) ELSE I(-6000)

RecalHistory(levels, noise) ==
    [i \in 1..Len(levels) |->
        Stats(i, levels[i], levels[i], I(100 * TARGET_LUFS), NoiseAt(noise, i))]

RecalProfile(createdAt, levels, noise) ==
    Profile("default", I(-6000), I(-2300), I(1), createdAt, createdAt,
            RecalHistory(levels, noise))

\* the profile of a second device, never asked for
RecalOther == Profile("headset", I(-5000), I(-2800), I(1), 0, 0, RecalHistory(<<I(-2800)>>, "steady"))

InitRecal ==
    /\ localRaw = Raw("absent", <<>>)
    /\ CacheInit
    /\ CallInit
    /\ \E createdAt \in RecalCreated : \E levels \in SeqsUpTo(RecalLevels, MaxHistory) :
         \E noise \in RecalNoise :
           CalInit(Store("array", <<RecalProfile(createdAt, levels, noise), RecalOther>>))
    /\ AnInit
    /\ lastCall = NoCall
    /\ rt = RtInit

\* the clock of the page reaches the time of the call
RecalArrive ==
    /\ clock # RecalNow
    /\ clock' = RecalNow
    /\ UNCHANGED <<localRaw, cachedConfig, cachedAt, callPc, callNow,
                   callResult, callOutcome, callFetches, callResp, calVars, anVars, lastCall, rt>>

RecalCheck ==
    /\ clock = RecalNow
    /\ lastCall = NoCall
    /\ \E deviceId \in {"default", "other"} : CallCheckRecalibration(deviceId)

RecalStatus ==
    /\ clock = RecalNow
    /\ lastCall = NoCall
    /\ \E deviceId \in {"default", "other"} : CallGetRecalibrationStatus(deviceId)

RecalLookup ==
    /\ clock = RecalNow
    /\ lastCall = NoCall
    /\ \E deviceId \in {"default", "other"} : CallGetCalibrationProfile(deviceId)

NextRecal == RecalArrive \/ RecalCheck \/ RecalStatus \/ RecalLookup

SpecRecal == InitRecal /\ [][NextRecal]_vars

(***************************************************************************)
(* SpecStore: the store operations called one after the other, a second    *)
(* apart, on a store that is absent, corrupt, empty or holds profiles of   *)
(* the devices "default" and "other".                                      *)
(***************************************************************************)
StoreDevices == {"default", "other"}

\* a history of n entries recorded before the origin of the clock
PastHistory(n) ==
    [i \in 1..n |-> Stats(i - 100, I(-2300), I(-2300), I(100 * TARGET_LUFS), I(-6000))]

StoredDefault(n) == Profile("default", I(-6000), I(-2300), I(2), -100, -100, PastHistory(n))
StoredOther == Profile("other", I(-5000), I(-2800), I(1), -50, -50, <<>>)

\* the profile the wizard saves for a device
FreshProfile(deviceId, now) ==
    JsonProfile(createCalibrationProfile(deviceId, I(-6000), I(-2300),
                                         I(100 * TARGET_LUFS), now))

StoreInputs ==
    {AbsentStore, Store("unparsable", <<>>), Store("nonarray", <<>>), Store("array", <<>>),
     Store("array", <<StoredDefault(0)>>),
     Store("array", <<StoredOther, StoredDefault(MAX_RECORDING_HISTORY - 1)>>)}

StoreBuffers == {Steady(25, 18)}

InitStore ==
    /\ localRaw = Raw("absent", <<>>)
    /\ CacheInit
    /\ CallInit
    /\ \E st \in StoreInputs : CalInit(st)
    /\ AnInit
    /\ lastCall = NoCall
    /\ rt = RtInit

\* one call at a time of the clock
StoreFree == IF lastCall.op = "none" THEN TRUE ELSE lastCall.now < clock

StoreWait ==
    /\ clock < MaxStoreOps * 1000
    /\ ~StoreFree
    /\ clock' = clock + 1000
    /\ UNCHANGED <<localRaw, cachedConfig, cachedAt, callPc, callNow,
                   callResult, callOutcome, callFetches, callResp, calVars, anVars, lastCall, rt>>

StoreList == StoreFree /\ CallGetCalibrationProfiles

StoreGet == StoreFree /\ \E d \in StoreDevices : CallGetCalibrationProfile(d)

StoreSave == StoreFree /\ \E d \in StoreDevices : CallSaveCalibrationProfile(FreshProfile(d, clock))

StoreDelete == StoreFree /\ \E d \in StoreDevices : CallDeleteCalibrationProfile(d)

StoreCalibrate ==
    /\ StoreFree
    /\ \E d \in StoreDevices \cup {""} : \E buf \in StoreBuffers :
          CallCalibrateAndNormalize(buf, d)

StoreTrack ==
    /\ StoreFree
    /\ \E d \in StoreDevices :
          CallTrackRecording(d, Stats(0, I(-2300), I(-2300), I(100 * TARGET_LUFS), I(-6000)))

NextStore ==
    \/ StoreWait \/ StoreList \/ StoreGet \/ StoreSave \/ StoreDelete \/ StoreCalibrate
    \/ StoreTrack

SpecStore == InitStore /\ [][NextStore]_vars

(***************************************************************************)
(* SpecVolume: analyzeVolume called on steady buffers of -40 dB to +3 dB   *)
(* with a device offset, under the default thresholds and two others.      *)
(***************************************************************************)
VolumeAmplitudes == {1, 2, 6, 18, 32, 56, 100, 150}

VolumeBuffers == {Steady(MaxBufLen, a) : a \in VolumeAmplitudes} \cup {<<>>}

\* deviceDbOffset, hundredths of a dB
VolumeOffsets == {I(-1000), I(-250), I(0), I(125), I(600), I(2000)}

\* configurations whose volume entry has min < ideal < max, and the
\* configuration without a volume entry
VolumeConfigs ==
    {DEFAULT_CONFIG, Tail(DEFAULT_CONFIG),
     <<Entry("volume", 4000, -4000, -2000, -500, "")>>,
     <<Entry("volume", 4000, -3000, -1000, -300, "")>>}

InitVolume ==
    /\ localRaw = Raw("absent", <<>>)
    /\ CacheInit
    /\ CallInit
    /\ CalInit(AbsentStore)
    /\ AnInit
    /\ lastCall = NoCall
    /\ rt = RtInit

VolumeMeasure ==
    /\ lastCall = NoCall
    /\ \E buf \in VolumeBuffers : \E config \in VolumeConfigs : \E off \in VolumeOffsets :
          CallAnalyzeVolume(buf, config, off)

NextVolume == VolumeMeasure

SpecVolume == InitVolume /\ [][NextVolume]_vars

(***************************************************************************)
(* SpecDeadline: calculateDeadlineReward called on day DeadlineToday for   *)
(* deadlines from MaxDaysEarly days ahead to MaxDaysLate days back.        *)
(***************************************************************************)
DeadlineToday == MaxDaysLate

\* the time of the call: the first millisecond, noon, the last second
DeadlineNows == {DeadlineToday * Day, DeadlineToday * Day + 12 * Hour,
                 DeadlineToday * Day + Day - 1000}

\* deadline.deadline: a time of a day from 0 to DeadlineToday + MaxDaysEarly
DeadlineTimes ==
    {d * Day + h : d \in 0..(DeadlineToday + MaxDaysEarly), h \in {0, 12 * Hour, Day - 1000}}

DeadlineCompletions == {30, 50, 60, 79, 80, 85, 100}

DeadlineConfigs ==
    {DeadlineDefaults, [DeadlineDefaults EXCEPT !.deadline_penalty_grace_days = 1]}

InitDeadline ==
    /\ localRaw = Raw("absent", <<>>)
    /\ CacheInit
    /\ CallInit
    /\ CalInit(AbsentStore)
    /\ AnInit
    /\ lastCall = NoCall
    /\ rt = RtInit

\* the clock of the page reaches the time of the call
DeadlineArrive ==
    /\ clock = 0
    /\ \E now \in DeadlineNows : clock' = now
    /\ UNCHANGED <<localRaw, cachedConfig, cachedAt, callPc, callNow,
                   callResult, callOutcome, callFetches, callResp, calVars, anVars, lastCall, rt>>

DeadlineCheck ==
    /\ clock \in DeadlineNows
    /\ lastCall = NoCall
    /\ \E deadline \in DeadlineTimes : \E pct \in DeadlineCompletions :
         \E cfg \in DeadlineConfigs : CallCalculateDeadlineReward(deadline, pct, cfg)

NextDeadline == DeadlineArrive \/ DeadlineCheck

SpecDeadline == InitDeadline /\ [][NextDeadline]_vars

(***************************************************************************)
(* SpecConcurrent: two analyzeAudioAsync calls in one runtime, each for    *)
(* one of two calibrated devices, interleaving at the await of the         *)
(* configuration and at the awaits of the transcription.                   *)
(***************************************************************************)
ConcurrentStores ==
    {Store("array", <<StoredDefault(0), StoredOther>>),
     Store("array", <<StoredOther, StoredDefault(MAX_RECORDING_HISTORY - 1)>>)}

\* recordings of steady speech, with and without a blob to transcribe
ConcurrentInputs ==
    {Input("async", Steady(25, 18), NoVad, d, blob, <<>>,
           IF blob THEN "deepgram-stt" ELSE "") :
        d \in StoreDevices, blob \in BOOLEAN}

ConcurrentResponses == {Resp("rows", SeededRows)}

ConcurrentReplies == {Reply(TRUE, <<3>>, 0, 0), Reply(FALSE, <<>>, 0, 0)}

InitConcurrent ==
    /\ localRaw = Raw("absent", <<>>)
    /\ CacheInit
    /\ CallInit
    /\ \E st \in ConcurrentStores : CalInit(st)
    /\ AnInit
    /\ lastCall = NoCall
    /\ rt = RtInit

\* time passes, a second at a time
ConcurrentWait ==
    /\ clock < MaxWaits * 1000
    /\ clock' = clock + 1000
    /\ UNCHANGED <<localRaw, cachedConfig, cachedAt, callPc, callNow,
                   callResult, callOutcome, callFetches, callResp, calVars, anVars, lastCall, rt>>

ConcurrentCall == \E c \in Callers : \E in \in ConcurrentInputs : AnalyzeStart(c, in)
ConcurrentFetch == \E c \in Callers : \E resp \in ConcurrentResponses : FetchReturn(c, resp)
ConcurrentResume == \E c \in Callers : AnalyzeResume(c)
ConcurrentTranscribeA ==
    \E c \in Callers : \E reply \in ConcurrentReplies : TranscribeAReturn(c, reply)
ConcurrentTranscribeB ==
    \E c \in Callers : \E reply \in ConcurrentReplies : TranscribeBReturn(c, reply)

NextConcurrent ==
    \/ ConcurrentCall \/ ConcurrentFetch \/ ConcurrentResume
    \/ ConcurrentTranscribeA \/ ConcurrentTranscribeB \/ ConcurrentWait

SpecConcurrent == InitConcurrent /\ [][NextConcurrent]_vars

(***************************************************************************)
(* SpecRealtime: the prop of useRealtimeAudio is toggled while getUserMedia *)
(* is pending and while the frames run.  SpecRealtimeFair adds what the    *)
(* browser guarantees: a requested frame is run unless it is cancelled     *)
(* (requestAnimationFrame, line 61) and a pending getUserMedia settles.    *)
(***************************************************************************)
MicLevels == {18, 100}

InitRealtime ==
    /\ localRaw = Raw("absent", <<>>)
    /\ CacheInit
    /\ CallInit
    /\ CalInit(AbsentStore)
    /\ AnInit
    /\ lastCall = NoCall
    /\ rt = RtInit

RealtimeToggle == \E enabled \in BOOLEAN : RtSetEnabled(enabled)
RealtimeGranted == \E level \in MicLevels : RtGranted(level)
RealtimeFrame == \E id \in rt.frames : RtAnimationFrame(id)

NextRealtime ==
    \/ RealtimeToggle \/ RtUnmount \/ RealtimeGranted \/ RtDenied \/ RealtimeFrame

SpecRealtime == InitRealtime /\ [][NextRealtime]_vars

SpecRealtimeFair ==
    SpecRealtime /\ WF_vars(RealtimeFrame) /\ WF_vars(RealtimeGranted \/ RtDenied)

(***************************************************************************)
(* SpecWizard: runs of the calibration wizard, one after the other, in     *)
(* rooms of different noise.                                               *)
(***************************************************************************)
WizardNoises == {Steady(25, 100), Steady(25, 10), Steady(25, 1)}

WizardReferences == {Steady(25, 18), Steady(25, 0)}

InitWizard ==
    /\ localRaw = Raw("absent", <<>>)
    /\ CacheInit
    /\ CallInit
    /\ CalInit(AbsentStore)
    /\ AnInit
    /\ lastCall = NoCall
    /\ rt = RtInit

WizardNoise == \E buf \in WizardNoises : WizardNoiseDone(buf)
WizardReference == \E buf \in WizardReferences : WizardReferenceDone(buf)
WizardRemove == WizardDelete("default")

NextWizard ==
    \/ WizardStartNoise \/ WizardNoise \/ WizardReference \/ WizardAgain \/ WizardRemove
    \/ Tick

SpecWizard == InitWizard /\ [][NextWizard]_vars

(***************************************************************************)
(* Claims about the resolver.                                              *)
(***************************************************************************)
KnownIds == {MetricIds[i] : i \in 1..5}

\* the sum of the five normalized weights
WeightSum(config) ==
    LET w == normalizedWeights(config)
    IN XAdd(w["volume"], XAdd(w["speechRate"], XAdd(w["acceleration"],
         XAdd(w["responseTime"], w["pauseManagement"]))))

\* at least one of the five metrics is present, every present one has weight > 0
PositiveWeights(config) ==
    /\ \E i \in 1..Len(config) : config[i].id \in KnownIds
    /\ \A i \in 1..Len(config) : config[i].id \in KnownIds => config[i].weight > 0

Done(c) == callPc[c] = "done"

\* C4: for every resolved configuration with at least one of the five metrics
\* present and every present metric of weight > 0, the five normalized weights
\* sum to 1.
C4_WeightsSumToOne ==
    \A c \in Callers :
        (Done(c) /\ callOutcome[c] = "resolved" /\ PositiveWeights(callResult[c]))
            => WeightSum(callResult[c]) = I(1)

\* the items of an override that carry an id, are enabled and weigh > 0
AcceptedItems(raw) ==
    SelectSeq(raw.items, LAMBDA m : m.kind = "obj" /\ m.id # "" /\ m.enabled
                                      /\ m.weight # <<>> /\ m.weight[1] > 0)

\* a valid, non-empty override: a parsable array without a null entry that has
\* at least one accepted item
ValidOverride(raw) ==
    /\ raw.kind = "array"
    /\ \A i \in 1..Len(raw.items) : raw.items[i].kind # "null"
    /\ AcceptedItems(raw) # <<>>

\* config is the override: its accepted items, in order, with their weights
IsOverrideOf(config, raw) ==
    /\ Len(config) = Len(AcceptedItems(raw))
    /\ \A i \in 1..Len(config) :
          /\ config[i].id = AcceptedItems(raw)[i].id
          /\ config[i].weight = AcceptedItems(raw)[i].weight[1]

CacheUnchanged == cachedConfig' = cachedConfig /\ cachedAt' = cachedAt

FailedResp(resp) ==
    resp.kind \in {"error", "throw"} \/ (resp.kind = "rows" /\ resp.rows = <<>>)

\* C7: when the remote fetch fails (error result or thrown exception) or
\* returns no rows, getConfigAsync resolves with exactly the compiled defaults,
\* and no call is ever rejected.
C7_FailureYieldsDefaults ==
    \A c \in Callers :
        /\ callOutcome[c] # "rejected"
        /\ (Done(c) /\ FailedResp(callResp[c])) =>
              (callOutcome[c] = "resolved" /\ callResult[c] = DEFAULT_CONFIG)

C7_Witness ==
    \E c \in Callers :
        /\ Done(c) /\ callResp[c].kind = "throw"
        /\ callResult[c] = DEFAULT_CONFIG

\* the call was answered by the remote tiers: by the cache or by a fetch
AsIfNoOverride(c) ==
    /\ callOutcome[c] = "resolved"
    /\ callResult[c] = cachedConfig
    /\ Len(callResult[c]) = 5

HasItem(raw, kinds) ==
    raw.kind = "array" /\ \E i \in 1..Len(raw.items) : raw.items[i].kind \in kinds

\* C8 as stated: a malformed override (unparsable, not an array, or an array
\* with a non-object entry) never throws and behaves as if no override existed.
C8_MalformedAsStated ==
    \A c \in Callers :
        /\ callOutcome[c] # "rejected"
        /\ (Done(c) /\ (localRaw.kind \in {"unparsable", "nonarray"}
                          \/ HasItem(localRaw, {"null", "prim"})))
              => AsIfNoOverride(c)

\* C8 amended: unparsable JSON, a value that is not an array, or an array with
\* a null entry never throws and behaves as if no override existed; a number,
\* string or boolean entry is skipped alone, the accepted entries beside it
\* still form the override.
C8_MalformedOverride ==
    \A c \in Callers :
        /\ callOutcome[c] # "rejected"
        /\ (Done(c) /\ (localRaw.kind \in {"unparsable", "nonarray"}
                          \/ HasItem(localRaw, {"null"})))
              => AsIfNoOverride(c)
        /\ (Done(c) /\ HasItem(localRaw, {"prim"}) /\ ValidOverride(localRaw))
              => (callOutcome[c] = "resolved" /\ IsOverrideOf(callResult[c], localRaw))

\* an override holding a null entry beside an accepted one was resolved
C8_Witness ==
    \E c \in Callers :
        /\ Done(c) /\ HasItem(localRaw, {"null"})
        /\ \E i \in 1..Len(localRaw.items) : OverrideItemAccepted(localRaw.items[i])
        /\ AsIfNoOverride(c)

(***************************************************************************)
(* Claims about the calibration store.                                     *)
(***************************************************************************)
RingHistory == HistoryOf(calStore, "default")

\* C9: the recordingHistory of the stored profile never holds more than 10
\* entries, and every calibrated recording (and nothing else) changes it, to
\* the last 10 of the old entries followed by the new one: the oldest entry
\* is the one evicted.
C9_HistoryRing ==
    /\ [](Len(RingHistory) <= MAX_RECORDING_HISTORY)
    /\ [][(RingHistory' # RingHistory \/ clock' # clock) =>
            /\ RingHistory' # <<>>
            /\ RingHistory'[Len(RingHistory')].timestamp = clock'
            /\ RingHistory' = LastN(Append(RingHistory, RingHistory'[Len(RingHistory')]),
                                    MAX_RECORDING_HISTORY)]_vars

\* the twelfth recording is stored together with the nine before it: the
\* first two have been evicted
C9_Witness ==
    /\ Len(RingHistory) = MAX_RECORDING_HISTORY
    /\ clock = 12 * 500
    /\ \A i \in 1..MAX_RECORDING_HISTORY : RingHistory[i].timestamp = (i + 2) * 500

GainInRange(p) ==
    /\ IsFin(p.gainAdjustment)
    /\ XGe(p.gainAdjustment, Q(1, 10))
    /\ XLe(p.gainAdjustment, I(10))

\* C10: the gainAdjustment of every profile createCalibrationProfile returns,
\* whatever the reference and target level (a reference of -Infinity
\* included), and of every profile in the store after wizard saves, manual
\* gain saves and calibrated recordings, lies within [0.1, 10].
C10_GainClamped ==
    /\ created # NoProfile => GainInRange(created[1])
    /\ \A i \in 1..Len(getCalibrationProfiles(calStore).list) :
          GainInRange(getCalibrationProfiles(calStore).list[i])

\* the wizard has stored the profile of a silent reference recording, its
\* gain at the upper end of the range, and a recording was tracked with it
C10_Witness ==
    /\ StoredProfile(calStore, "default") # NoProfile
    /\ StoredProfile(calStore, "default")[1].referenceLevel = JNull
    /\ StoredProfile(calStore, "default")[1].gainAdjustment = I(10)
    /\ HistoryOf(calStore, "default") # <<>>

(***************************************************************************)
(* Claims about the analysis.                                              *)
(***************************************************************************)
AnalysisDone == anPc["a"] = "done" /\ anOut["a"].kind = "result"

InScoreRange(x) == IsFin(x) /\ XGe(x, I(0)) /\ XLe(x, I(100))

\* C1: in the result of analyzeAudioAsync and of analyzeAudio, for any buffer
\* (the empty one included) and any resolved configuration, overallScore and
\* each of the five metric scores is a number within [0, 100], never NaN.
C1_ScoresInRange ==
    AnalysisDone =>
        /\ InScoreRange(anOut["a"].overallScore)
        /\ InScoreRange(anOut["a"].scores.volume)
        /\ InScoreRange(anOut["a"].scores.speechRate)
        /\ InScoreRange(anOut["a"].scores.acceleration)
        /\ InScoreRange(anOut["a"].scores.responseTime)
        /\ InScoreRange(anOut["a"].scores.pauseManagement)

\* the all-zero result of part_004:559-571
IsNoSpeechResult(out) ==
    /\ out.scores = Scores(I(0), I(0), I(0), I(0), I(0))
    /\ out.overallScore = I(0)
    /\ out.emotionalFeedback = "poor"
    /\ out.feedback = <<"nospeech">>

AsyncDone == anPc["a"] = "done" /\ anIn["a"] # NoIn /\ anIn["a"][1].api = "async"

\* C2 (amended): analyzeAudioAsync bypasses the analyzers and returns the
\* all-zero result with the single "No speech detected" message exactly when
\* voice-activity metrics are supplied and speechRatio <= 0.02 or
\* totalSpeechTime <= 200 ms (either one suffices); when both are above, or
\* no voice-activity metrics are supplied, the pipeline runs.
C2_NoSpeechBypass ==
    AsyncDone =>
        IF /\ anIn["a"][1].vadMetrics # NoVad
           /\ \/ anIn["a"][1].vadMetrics[1].speechRatio <= 20
              \/ anIn["a"][1].vadMetrics[1].totalSpeechTime <= 200
        THEN anOut["a"].kind = "result" /\ IsNoSpeechResult(anOut["a"]) /\ anMid["a"] = NoMid
        ELSE anOut["a"].kind = "result" => ~IsNoSpeechResult(anOut["a"])

\* C2 witness: only one of the two conditions of the claim holds
\* (speechRatio 0.01, totalSpeechTime 300 ms) and the analysis was bypassed.
C2_Witness ==
    /\ AsyncDone
    /\ anIn["a"][1].vadMetrics = <<Vad(10, 300, <<Seg(0, 300)>>)>>
    /\ anIn["a"][1].audioBuffer = Steady(25, 18)
    /\ anOut["a"].kind = "result"
    /\ IsNoSpeechResult(anOut["a"])

\* C2 as stated: the all-zero result is returned when speechRatio <= 0.02 and
\* totalSpeechTime < 200 ms, and in no other case.
C2_BypassAsStated ==
    (AsyncDone /\ anOut["a"].kind = "result") =>
        (IsNoSpeechResult(anOut["a"]) <=>
            /\ anIn["a"][1].vadMetrics # NoVad
            /\ anIn["a"][1].vadMetrics[1].speechRatio <= 20
            /\ anIn["a"][1].vadMetrics[1].totalSpeechTime < 200)

AllZero(buf) == buf # <<>> /\ \A i \in 1..Len(buf) : buf[i] = 0

\* C3: a silent (all-zero, non-empty) buffer analyzed without voice-activity
\* metrics yields overallScore 0 and the "no speech" feedback; response time,
\* pauses and acceleration award it no points.
C3_SilentIsNoSpeech ==
    (AnalysisDone /\ anIn["a"][1].vadMetrics = NoVad /\ AllZero(anIn["a"][1].audioBuffer)) =>
        /\ anOut["a"].overallScore = I(0)
        /\ anOut["a"].feedback = <<"nospeech">>
        /\ anOut["a"].scores.responseTime = I(0)
        /\ anOut["a"].scores.pauseManagement = I(0)
        /\ anOut["a"].scores.acceleration = I(0)

\* C5: with a resolved configuration of volume weight 40 and pauseManagement
\* weight 10 only, overallScore = round(0.8 * volume + 0.2 * pauseManagement):
\* the scores of the absent metrics do not enter it.
C5_TwoMetricScore ==
    (AnalysisDone /\ localRaw = TwoMetricOverride) =>
        anOut["a"].overallScore =
            XRound(XAdd(XMul(Q(4, 5), anOut["a"].scores.volume),
                        XMul(Q(1, 5), anOut["a"].scores.pauseManagement)))

\* C5 holds of every buffer that has a sample; the empty buffer is what
\* breaks it (see C1_ScoresInRange)
TwoMetricScore_NonEmpty ==
    (AnalysisDone /\ localRaw = TwoMetricOverride /\ anIn["a"][1].audioBuffer # <<>>) =>
        anOut["a"].overallScore =
            XRound(XAdd(XMul(Q(4, 5), anOut["a"].scores.volume),
                        XMul(Q(1, 5), anOut["a"].scores.pauseManagement)))

(***************************************************************************)
(* Claims about the loudness measurement.                                  *)
(***************************************************************************)
InFullScale(buf) == \A i \in 1..Len(buf) : buf[i] >= -100 /\ buf[i] <= 100

\* C11: for any buffer of finite samples, of any length and with samples
\* outside [-1, 1] too, every sample of the buffer normalizeToLUFS returns
\* lies within [-1, 1].
C11_NormalizedInRange ==
    lastCall.op = "normalizeToLUFS" => InFullScale(lastCall.result.normalized)

\* no measurement block of the buffer reaches the absolute gate of -70 dB
\* (mean square 10^-7); true when the buffer is too short for any block
NoBlockSurvives(buf) ==
    \A i \in 0..(Len(buf) - BlockSize(SampleRate) - 1) :
        i % BlockHop(SampleRate) = 0 =>
            SumSq(Slice(buf, i, i + BlockSize(SampleRate))) * 1000 < BlockSize(SampleRate)

\* C12 (amended): calculateLUFS returns -Infinity for an empty buffer and
\* also for a non-empty buffer in which no block survives gating (no block
\* at all, or every block below the absolute gate); for every other buffer
\* it returns a finite loudness.
C12_SilenceIsMinusInfinity ==
    lastCall.op = "calculateLUFS" =>
        IF lastCall.audioBuffer = <<>> \/ NoBlockSurvives(lastCall.audioBuffer)
        THEN lastCall.result = NInf
        ELSE IsFin(lastCall.result)

\* C12 witness: 500 ms of zeros, blocks measured and none above the gate
C12_Witness ==
    /\ lastCall.op = "calculateLUFS"
    /\ lastCall.audioBuffer = Steady(25, 0)
    /\ lastCall.result = NInf

\* C12 as stated: -Infinity for an empty buffer, and 0 for a non-empty
\* buffer in which no block survives gating.
C12_ZeroWhenGatedOut ==
    lastCall.op = "calculateLUFS" =>
        /\ lastCall.audioBuffer = <<>> => lastCall.result = NInf
        /\ (lastCall.audioBuffer # <<>> /\ NoBlockSurvives(lastCall.audioBuffer))
               => lastCall.result = I(0)

(***************************************************************************)
(* Claims about the recalibration suggestion.                              *)
(***************************************************************************)
RecalDone == lastCall.op = "checkRecalibrationNeeded"

\* originalLUFS, or noiseFloor, of the history the call found
LevelsSeen == [i \in 1..Len(HistoryOf(lastCall.before, lastCall.deviceId)) |->
                  HistoryOf(lastCall.before, lastCall.deviceId)[i].originalLUFS]
NoiseSeen == [i \in 1..Len(HistoryOf(lastCall.before, lastCall.deviceId)) |->
                 HistoryOf(lastCall.before, lastCall.deviceId)[i].noiseFloor]

\* the square of 5 LUFS, and of 10 dB, in hundredths
FiveSquared == I(500 * 500)
TenSquared == I(1000 * 1000)

\* C13: with three or more history entries, a population standard deviation
\* of originalLUFS of exactly 5.0 does not trigger on the variance of the
\* levels, and every deviation above 5 triggers with the reason that names
\* the variance of the audio levels.
C13_VarianceThreshold ==
    (RecalDone /\ Len(LevelsSeen) >= 3) =>
        /\ calcStd(LevelsSeen).squared = FiveSquared => lastCall.result.reason # "levels"
        /\ XGt(calcStd(LevelsSeen).squared, FiveSquared) =>
              /\ lastCall.result.shouldRecalibrate
              /\ lastCall.result.reason = "levels"

\* a history of -28, -28, -18, -18 LUFS deviates by exactly 5 and is not
\* suggested for its levels
C13_Witness ==
    /\ RecalDone
    /\ LevelsSeen = <<I(-2800), I(-2800), I(-1800), I(-1800)>>
    /\ calcStd(LevelsSeen).squared = FiveSquared
    /\ lastCall.result.reason # "levels"

\* the decision the claim words, test by test
DecisionAsWorded ==
    IF Len(LevelsSeen) < 3 THEN "none"
    ELSE IF XGt(calcStd(LevelsSeen).squared, FiveSquared) THEN "levels"
    ELSE IF XGt(calcStd(NoiseSeen).squared, TenSquared) THEN "noise"
    ELSE IF XGt(DaysSince(lastCall.now,
                   StoredProfile(lastCall.before, lastCall.deviceId)[1].createdAt), I(30))
    THEN "age"
    ELSE "none"

\* C14: fewer than three entries or no profile gives no suggestion; else
\* the deviation of originalLUFS above 5, then the deviation of noiseFloor
\* above 10, then an age above 30 days, and the first test that holds gives
\* the reason; the reason of an old profile states its age in whole days.
C14_PrioritizedDecision ==
    RecalDone =>
        /\ lastCall.result.reason = DecisionAsWorded
        /\ lastCall.result.shouldRecalibrate = (DecisionAsWorded # "none")
        /\ lastCall.result.reason = "age" =>
              lastCall.result.days =
                  XFloor(DaysSince(lastCall.now,
                      StoredProfile(lastCall.before, lastCall.deviceId)[1].createdAt))

\* a profile of 31 days with a quiet, even history is suggested for its age
C14_Witness ==
    /\ RecalDone
    /\ LevelsSeen = <<I(-2800), I(-2800), I(-2800)>>
    /\ calcStd(NoiseSeen).squared = I(0)
    /\ lastCall.result = [shouldRecalibrate |-> TRUE, reason |-> "age", days |-> I(31)]

(***************************************************************************)
(* Claims about the store operations.                                      *)
(***************************************************************************)
StoreOps == {"getCalibrationProfiles", "getCalibrationProfile", "saveCalibrationProfile",
             "deleteCalibrationProfile", "calibrateAndNormalize"}

\* the call found a persisted value that does not parse, or parses to a
\* value that is no list
CalledOnCorrupt ==
    /\ lastCall.op \in StoreOps
    /\ lastCall.before.kind \in {"unparsable", "nonarray"}

\* C15: on a corrupt persisted value the store behaves as an empty list and
\* getCalibrationProfiles, getCalibrationProfile, saveCalibrationProfile,
\* deleteCalibrationProfile and calibrateAndNormalize with a device id all
\* complete without raising.
C15_CorruptStoreCompletes ==
    (CalledOnCorrupt /\ (lastCall.op = "calibrateAndNormalize" => lastCall.deviceId # "")) =>
        /\ ~lastCall.threw
        /\ lastCall.op = "getCalibrationProfile" => lastCall.result = NoProfile

CalibrateDone == lastCall.op = "calibrateAndNormalize"

\* the call named a device whose profile the store held
CalibratedStored ==
    /\ lastCall.deviceId # ""
    /\ StoredProfile(lastCall.before, lastCall.deviceId) # NoProfile

HistoryBefore == HistoryOf(lastCall.before, lastCall.deviceId)
HistoryAfter == HistoryOf(calStore, lastCall.deviceId)

\* the profiles of the other devices are as they were, and no profile came
\* or went
OthersKept ==
    /\ Len(getCalibrationProfiles(calStore).list) =
           Len(getCalibrationProfiles(lastCall.before).list)
    /\ \A d \in StoreDevices \ {lastCall.deviceId} :
           StoredProfile(calStore, d) = StoredProfile(lastCall.before, d)

\* C20: a calibrateAndNormalize call with the id of a stored profile
\* appends exactly one entry to the history of that profile, the oldest
\* leaving when there were 10, and keeps the other entries as they were; a
\* call without a device id, or with an id that has no stored profile,
\* leaves the store as it was.
C20_OneEntryPerCall ==
    CalibrateDone =>
        IF CalibratedStored
        THEN /\ HistoryAfter # <<>>
             /\ HistoryAfter[Len(HistoryAfter)].timestamp = lastCall.now
             /\ SubSeq(HistoryAfter, 1, Len(HistoryAfter) - 1) =
                   (IF Len(HistoryBefore) >= 10 THEN Tail(HistoryBefore) ELSE HistoryBefore)
             /\ OthersKept
        ELSE calStore = lastCall.before

\* the eleventh entry of a profile takes the place of its first
C20_Witness ==
    /\ CalibrateDone
    /\ CalibratedStored
    /\ Len(HistoryBefore) = 10
    /\ Len(HistoryAfter) = 10
    /\ HistoryAfter[1] = HistoryBefore[2]
    /\ HistoryAfter[10].timestamp = lastCall.now

(***************************************************************************)
(* Claims about the volume score.                                          *)
(***************************************************************************)
VolumeDone == lastCall.op = "analyzeVolume"

\* the score the claim words for db under min < ideal < max, all in
\* hundredths of a dB, before it is rounded to a whole number
VolumeAsWorded(db, tmin, ideal, tmax) ==
    IF db < tmin THEN I(0)
    ELSE IF db < ideal THEN Q(90 * (db - tmin), ideal - tmin)
    ELSE IF 2 * db <= ideal + tmax
    THEN XAdd(I(90), Q(10 * (2 * db - 2 * ideal), tmax - ideal))
    ELSE IF db <= tmax
    THEN XSub(I(100), Q(10 * (2 * db - ideal - tmax), tmax - ideal))
    ELSE XMax(I(0), XSub(I(90), Q(5 * (db - tmax), 100)))

\* C16: the volume score is 0 below min, rises linearly to 90 at ideal and
\* to 100 at the midpoint of ideal and max, falls back to 90 at max and by
\* 5 per dB above max down to 0; a buffer at -15 dB under the default
\* thresholds and no device offset scores within 90..100.
C16_VolumePiecewise ==
    VolumeDone =>
        /\ IsFin(lastCall.db) =>
              lastCall.result.score =
                  XRound(VolumeAsWorded(lastCall.db.n, lastCall.thresholds.min,
                                        lastCall.thresholds.ideal, lastCall.thresholds.max))
        /\ lastCall.db = NInf => lastCall.result.score = I(0)
        /\ (lastCall.db = I(-1500) /\ lastCall.thresholds = Thresholds(-3500, -1500, 0)) =>
              /\ XGe(lastCall.result.score, I(90))
              /\ XLe(lastCall.result.score, I(100))

\* the steady buffer of -15 dB scores 90 under the default thresholds
C16_Witness ==
    /\ VolumeDone
    /\ lastCall.audioBuffer = Steady(MaxBufLen, 18)
    /\ lastCall.db = I(-1500)
    /\ lastCall.thresholds = Thresholds(-3500, -1500, 0)
    /\ lastCall.result.score = I(90)

(***************************************************************************)
(* Claims about the deadline reward.                                       *)
(***************************************************************************)
DeadlineDone == lastCall.op = "calculateDeadlineReward"

\* the calendar days of the deadline and of the call
DeadlineDay == lastCall.deadline \div Day
CallDay == lastCall.now \div Day

\* C17: a deadline whose calendar day is strictly before the current day,
\* with no grace days, gives a penalty of a positive amount and never a
\* bonus, one day overdue included; a deadline of the current day with a
\* completion of at least min_completion_for_bonus gives the on-time bonus.
C17_OverdueIsPenalty ==
    DeadlineDone =>
        /\ (DeadlineDay < CallDay /\ lastCall.config.deadline_penalty_grace_days = 0) =>
              /\ lastCall.result.type = "penalty"
              /\ XGt(lastCall.result.amount, I(0))
        /\ (DeadlineDay = CallDay
              /\ lastCall.completionPercent >= lastCall.config.min_completion_for_bonus) =>
              /\ lastCall.result.type = "bonus"
              /\ lastCall.result.amount = I(lastCall.config.deadline_on_time_bonus)
              /\ lastCall.result.message = "on-time"

(***************************************************************************)
(* Claims about the configuration cache.                                   *)
(***************************************************************************)
\* both calls have fetched and completed, and c issued its fetch last
IssuedLast(c) ==
    /\ \A k \in Callers : callPc[k] = "done" /\ callFetches[k] = 1
                            /\ callOutcome[k] = "resolved"
    /\ \A k \in Callers \ {c} : callNow[k] < callNow[c]

\* C18: when getConfigAsync calls overlap, after both have completed the
\* cached payload is that of the fetch issued last, and the timestamp of
\* the cache never moves backwards.
C18_LastIssuedWins ==
    /\ [][cachedAt' >= cachedAt]_vars
    /\ [](\A c \in Callers : IssuedLast(c) => cachedConfig = callResult[c])

(***************************************************************************)
(* Claims about concurrent analyses.                                       *)
(***************************************************************************)
\* the analysis c passes its await of the configuration in this step
Resumes(c) == anPc[c] = "config" /\ anPc'[c] # "config"

\* the history of the device d takes one entry of the time of the step,
\* the oldest leaving when there were 10, and nothing else of it changes
OneEntryAdded(d) ==
    /\ HistoryOf(calStore', d) # <<>>
    /\ HistoryOf(calStore', d)[Len(HistoryOf(calStore', d))].timestamp = clock
    /\ SubSeq(HistoryOf(calStore', d), 1, Len(HistoryOf(calStore', d)) - 1) =
          (IF Len(HistoryOf(calStore, d)) >= 10
           THEN Tail(HistoryOf(calStore, d))
           ELSE HistoryOf(calStore, d))

\* the step of the analysis c writes one entry for its device and leaves
\* the profiles of the other devices as they are
ContributesOnce(c) ==
    /\ OneEntryAdded(anIn[c][1].deviceId)
    /\ \A d \in StoreDevices \ {anIn[c][1].deviceId} :
          StoredProfile(calStore', d) = StoredProfile(calStore, d)
    /\ Len(getCalibrationProfiles(calStore').list) = Len(getCalibrationProfiles(calStore).list)

\* the entries of the device d written since the analyses began
NewEntries(d) == SelectSeq(HistoryOf(calStore, d), LAMBDA h : h.timestamp >= 0)

AnalysesOf(d) == {c \in Callers : anPc[c] = "done" /\ anIn[c][1].deviceId = d}

AllComplete == \A c \in Callers : anPc[c] = "done" /\ anOut[c].kind = "result"

LookupOps == {"getCalibrationProfile", "checkRecalibrationNeeded", "getRecalibrationStatus"}

LookupDone == lastCall.op \in LookupOps

\* the list of profiles the call found, and the place of its device in it
ListBefore == getCalibrationProfiles(lastCall.before).list
PlaceBefore == FindDevice(ListBefore, lastCall.deviceId)

\* C21: a lookup of a stored device persists the time of the call as the
\* lastUsed of its profile and changes nothing else, neither another field
\* of that profile nor the profile of another device; a lookup of an
\* unknown device leaves the store as it was.  The same for
\* checkRecalibrationNeeded and getRecalibrationStatus.
C21_LookupTouchesLastUsed ==
    LookupDone =>
        IF PlaceBefore = 0 THEN calStore = lastCall.before
        ELSE calStore = Store("array",
                 [ListBefore EXCEPT ![PlaceBefore] =
                     [ListBefore[PlaceBefore] EXCEPT !.lastUsed = lastCall.now]])

\* the status of a profile with an uneven history was asked for: the
\* profile has the time of the call as lastUsed and its history as before
C21_Witness ==
    /\ lastCall.op = "getRecalibrationStatus"
    /\ lastCall.result.status = "recommend"
    /\ PlaceBefore = 1
    /\ ListBefore[1].lastUsed # lastCall.now
    /\ StoredProfile(calStore, "default")[1].lastUsed = lastCall.now
    /\ HistoryOf(calStore, "default") = HistoryOf(lastCall.before, "default")
    /\ Len(HistoryOf(calStore, "default")) = 4
    /\ StoredProfile(calStore, "headset") = <<RecalOther>>

(***************************************************************************)
(* Claims about the entries of the local override.                         *)
(***************************************************************************)
\* an override that is an array of entries none of which names a metric
OnlyUnknownIds(raw) ==
    /\ raw.kind = "array"
    /\ raw.items # <<>>
    /\ \A i \in 1..Len(raw.items) :
          raw.items[i].kind = "obj" /\ raw.items[i].id \notin KnownIds

\* C22: an entry of the local override is accepted only if its id is one
\* of the five metric ids, it is enabled and its weight is above 0; an
\* override whose entries all carry unknown ids is no valid override, and
\* the resolver answers from the remote cache or the defaults.
C22_UnknownIdsRejected ==
    \A c \in Callers :
        (Done(c) /\ callOutcome[c] = "resolved") =>
            /\ \A i \in 1..Len(callResult[c]) : callResult[c][i].id \in KnownIds
            /\ OnlyUnknownIds(localRaw) => AsIfNoOverride(c)

(***************************************************************************)
(* Claims about the rows of the remote scoring configuration.              *)
(***************************************************************************)
\* the entry of a metric as the rows of the remote table are said to set it
EntryAsWorded(e, d, row) ==
    /\ e.weight = 100 * ((2 * row.weight + 10) \div 20)
    /\ e.min = Coalesce(row.min_value, <<d.min>>)[1]
    /\ e.max = Coalesce(row.max_value, <<d.max>>)[1]

\* C23: for every remote row naming volume, speech_rate, end_intensity,
\* latency or pauses the resolved entry of the mapped metric has the weight
\* round(row.weight * 100), the minimum row.min_value and the maximum
\* row.max_value, a missing remote value keeping the compiled default;
\* rows with another name are ignored and a metric without a row keeps its
\* defaults.
C23_RemoteRowsMapped ==
    \A c \in Callers :
        (Done(c) /\ callOutcome[c] = "resolved" /\ callResp[c].kind = "rows") =>
            /\ Len(callResult[c]) = 5
            /\ \A i \in 1..5 :
                  LET e == callResult[c][i]
                      d == DEFAULT_CONFIG[i]
                      rows == callResp[c].rows
                      named == {j \in 1..Len(rows) : DB_METRIC_MAP(rows[j].metric_name) = d.id}
                  IN /\ e.id = d.id
                     /\ IF named = {} THEN e = d
                        ELSE \A j \in named : EntryAsWorded(e, d, rows[j])

(***************************************************************************)
(* Claims about the speech rate and the transcription collaborator.        *)
(***************************************************************************)
\* the replies the analysis c received
LastReply(c) == anReplies[c][Len(anReplies[c])]

\* the transcription of the analysis c failed: the last request rejected,
\* or "deepgram-transcribe" also answered with an error
TranscriptionFailed(c) ==
    /\ anPc[c] = "done"
    /\ anReplies[c] # <<>>
    /\ Threw(LastReply(c)) \/ ~LastReply(c).ok

\* the words per minute of the two onset counters for the recording of c,
\* which is analyzed as recorded when no device is named
FluxRate(c) ==
    SyllableRate(detectSyllablesSpectralFlux(anIn[c][1].audioBuffer, SampleRate),
                 DurationSeconds(anIn[c][1].audioBuffer, SampleRate, anIn[c][1].vadMetrics))

EnergyRate(c) ==
    SyllableRate(detectSyllablesEnergy(anIn[c][1].audioBuffer, SampleRate),
                 DurationSeconds(anIn[c][1].audioBuffer, SampleRate, anIn[c][1].vadMetrics))

\* C24: with the transcript method selected, every failure of the
\* transcription collaborator (an error from each endpoint, or a thrown
\* exception) is absorbed: the analysis does not raise, wordsPerMinute is
\* what the spectral-flux estimator computes and the method reported is
\* 'spectral-flux'.
C24_FailureFallsBack ==
    TranscriptionFailed("a") =>
        /\ anOut["a"].kind = "result"
        /\ anOut["a"].method = "spectral-flux"
        /\ anOut["a"].wordsPerMinute = FluxRate("a")

\* both endpoints answered with an error, and the two estimators disagree
C24_Witness ==
    /\ TranscriptionFailed("a")
    /\ Len(anReplies["a"]) = 2
    /\ ~Threw(LastReply("a"))
    /\ anOut["a"].method = "spectral-flux"
    /\ anOut["a"].wordsPerMinute = FluxRate("a")
    /\ FluxRate("a") # EnergyRate("a")

\* the transcription requests the analysis c has issued: those answered
\* and the one in flight
Requests(c) ==
    Len(anReplies[c]) + (IF anPc[c] \in {"transcribeA", "transcribeB"} THEN 1 ELSE 0)

WordCountSupplied(c) == anIn[c] # NoIn /\ anIn[c][1].sttWordCount # <<>>

\* C25 as worded: one analysis makes at most one round trip to the
\* transcription collaborator and at most one to the scoring-config
\* collaborator; a failed transcription request is never followed by a
\* second one, and none is made when a word count is supplied.
C25_OneTranscriptionRequest ==
    \A c \in Callers :
        /\ Requests(c) <= 1
        /\ callFetches[c] <= 1
        /\ WordCountSupplied(c) => Requests(c) = 0

\* C25 (amended): one analysis makes at most one request to each of the two
\* transcription endpoints, the one to "deepgram-transcribe" only after
\* "transcribe" has answered with an error, and at most one round trip to
\* the scoring-config collaborator; no transcription request is made when a
\* word count is supplied.
C25_OneRequestPerEndpoint ==
    \A c \in Callers :
        /\ Requests(c) <= 2
        /\ Requests(c) = 2 => ~Threw(anReplies[c][1]) /\ ~anReplies[c][1].ok
        /\ callFetches[c] <= 1
        /\ WordCountSupplied(c) => Requests(c) = 0

\* the request to "deepgram-transcribe" is in flight, after a fetch of the
\* configuration
C25_Witness ==
    /\ anPc["a"] = "transcribeB"
    /\ Requests("a") = 2
    /\ cachedConfig # NullConfig

\* the word count the transcript path of the analysis c had: the supplied
\* one, else that of the reply that answered; <<>> without either
TranscriptWords(c) ==
    IF anIn[c][1].sttWordCount # <<>> THEN anIn[c][1].sttWordCount
    ELSE IF anReplies[c] = <<>> \/ Threw(LastReply(c)) \/ ~LastReply(c).ok THEN <<>>
    ELSE IF Len(anReplies[c]) = 1 THEN <<WordCountA(LastReply(c))>>
    ELSE <<WordCountB(LastReply(c))>>

TranscriptRate(c) ==
    WordsPerMinute(TranscriptWords(c)[1],
                   DurationSeconds(anIn[c][1].audioBuffer, SampleRate, anIn[c][1].vadMetrics))

\* an asynchronous analysis of a recording as recorded (no device named)
\* that ran the analyzers
PipelineRan(c) ==
    /\ anPc[c] = "done"
    /\ anOut[c].kind = "result"
    /\ anIn[c][1].api = "async"
    /\ anIn[c][1].deviceId = ""
    /\ HasSpeech(anIn[c][1].vadMetrics)

\* C26: the method of the speech-rate result names the estimator that
\* produced wordsPerMinute: with 'deepgram-stt' the value is derived from the
\* transcript word count, with 'energy-peaks' it is the rate of the
\* energy-peak counter and with 'spectral-flux' that of the spectral-flux
\* counter, also when the transcript yields no word or the transcript
\* method is selected without recording and word count.
C26_MethodNamesEstimator ==
    PipelineRan("a") =>
        CASE anOut["a"].method = "deepgram-stt" ->
                 /\ TranscriptWords("a") # <<>>
                 /\ anOut["a"].wordsPerMinute = TranscriptRate("a")
          [] anOut["a"].method = "energy-peaks" ->
                 anOut["a"].wordsPerMinute = EnergyRate("a")
          [] anOut["a"].method = "spectral-flux" ->
                 anOut["a"].wordsPerMinute = FluxRate("a")
          [] OTHER -> FALSE

(***************************************************************************)
(* Claims about the realtime monitoring.                                   *)
(***************************************************************************)
\* monitoring is disabled and no asynchronous step is pending
MonitoringSettled == (~rt.enabled \/ ~rt.mounted) /\ rt.pending = 0

\* C28: whenever monitoring has been disabled (the prop is false or the
\* component is unmounted) and every pending asynchronous step has settled,
\* no microphone stream is open, no audio context is open and no animation
\* frame is requested, for every interleaving of the toggles with the
\* pending getUserMedia of startMonitoring.
C28_DisabledReleasesAll ==
    MonitoringSettled => rt.streams = {} /\ rt.contexts = {} /\ rt.frames = {}

\* the hook monitors: enabled, mounted and connected to the analyser
Monitoring == rt.enabled /\ rt.mounted /\ rt.analyzerRef

\* the ring holds 400 ms of the signal
RingFilled ==
    /\ Len(rt.buffer) = RequiredSamples
    /\ \A i \in 1..RequiredSamples : rt.buffer[i] # 0

\* C29: while the monitoring stays active on a signal that is not silent,
\* the live LUFS becomes non-null: once the ring of 400 ms is filled, the
\* periodic calculateLUFS on it yields a finite loudness that is published
\* in metrics.
C29_LiveLufsAppears ==
    (Monitoring /\ RingFilled) ~> (rt.lufs # <<>> \/ ~Monitoring)

(***************************************************************************)
(* Claims about the profiles of the store.                                 *)
(***************************************************************************)
\* no two profiles of the list have the same deviceId
DevicesOnce(list) ==
    \A i, j \in 1..Len(list) : list[i].deviceId = list[j].deviceId => i = j

\* the call found the store as calls on an empty store leave it
CalledOnList ==
    /\ lastCall.op \in StoreOps \cup {"trackRecording"}
    /\ lastCall.before.kind \in {"absent", "array"}

ListAfter == getCalibrationProfiles(calStore).list

\* the profiles of the devices other than that of the call are as they were
OtherDevicesKept ==
    \A d \in StoreDevices \ {lastCall.deviceId} :
        StoredProfile(calStore, d) = StoredProfile(lastCall.before, d)

\* C27: from an empty store on, after any sequence of saveCalibrationProfile,
\* getCalibrationProfile, trackRecording, calibrateAndNormalize and
\* deleteCalibrationProfile calls the store holds at most one profile for
\* a deviceId; a save for a stored deviceId replaces the profile where it
\* is; deleteCalibrationProfile(d) removes the profile of d and no other,
\* and a lookup, a tracked recording or a calibrated analysis for a device
\* without a profile does not create one.
C27_OneProfilePerDevice ==
    /\ DevicesOnce(ListAfter)
    /\ CalledOnList =>
          CASE lastCall.op = "saveCalibrationProfile" ->
                   IF PlaceBefore = 0
                   THEN ListAfter = Append(ListBefore, JsonProfile(lastCall.result))
                   ELSE ListAfter = [ListBefore EXCEPT ![PlaceBefore] =
                                                           JsonProfile(lastCall.result)]
            [] lastCall.op = "deleteCalibrationProfile" ->
                   /\ StoredProfile(calStore, lastCall.deviceId) = NoProfile
                   /\ OtherDevicesKept
                   /\ Len(ListAfter) = Len(ListBefore) - (IF PlaceBefore = 0 THEN 0 ELSE 1)
            [] lastCall.op \in {"getCalibrationProfile", "trackRecording",
                                "calibrateAndNormalize"} ->
                   (lastCall.deviceId = "" \/ PlaceBefore = 0) => calStore = lastCall.before
            [] OTHER -> calStore = lastCall.before

\* the third call: a calibrated analysis for the device whose profile was
\* saved and deleted, the list being empty since
C27_Witness ==
    /\ lastCall.op = "calibrateAndNormalize"
    /\ lastCall.deviceId = "default"
    /\ lastCall.now = MaxStoreOps * 1000
    /\ lastCall.before = Store("array", <<>>)
    /\ calStore = Store("array", <<>>)

(***************************************************************************)
(* Claims about the calibration wizard.                                    *)
(***************************************************************************)
\* the step in which the wizard creates and saves the profile of a run
WizardSaves == wizStep = "reference" /\ wizStep' = "complete"

\* C30: the profile saved at the end of a run of the wizard (startNoise,
\* startReference, createCalibrationProfile, saveCalibrationProfile) has as
\* noiseFloor the value measured in the noise step of that run, not the
\* initial 0 and not the value of an earlier run.
C30_SavedNoiseIsMeasured ==
    [][WizardSaves =>
          /\ created' # NoProfile
          /\ created'[1].noiseFloor = wizNoise
          /\ StoredProfile(calStore', "default") = <<JsonProfile(created'[1])>>]_vars

====
